---- MODULE Spec2Model ----
(***************************************************************************)
(* Model of the docstring generation pipeline of                           *)
(* core/docstring_engine/generator.py: the module-level cache and client,  *)
(* generate_docstring / _generate_with_groq / _fallback_generate, the      *)
(* response cleanup, _post_process_docstring, the two first-line fixes and *)
(* the three template builders.                                            *)
(*                                                                         *)
(* A Python str is a sequence of one-character strings; the characters a   *)
(* TLA+ string cannot hold directly have names (NL, DQ, SQ, BT, TAB).      *)
(***************************************************************************)
EXTENDS Integers, Sequences, FiniteSets, TLC

NL == "\n"
DQ == "\""
SQ == "'"
BT == "BACKTICK"
TAB == "\t"

(***************************************************************************)
(* Python str methods.                                                     *)
(***************************************************************************)
Min(S) == CHOOSE x \in S : \A y \in S : x <= y
Max(S) == CHOOSE x \in S : \A y \in S : x >= y

WHITESPACE == {" ", TAB, NL}
LOWERCASE == <<"a","b","c","d","e","f","g","h","i","j","k","l","m",
               "n","o","p","q","r","s","t","u","v","w","x","y","z">>
UPPERCASE == <<"A","B","C","D","E","F","G","H","I","J","K","L","M",
               "N","O","P","Q","R","S","T","U","V","W","X","Y","Z">>

islower(c) == \E k \in 1..26 : LOWERCASE[k] = c
isupper(c) == \E k \in 1..26 : UPPERCASE[k] = c
isalpha(c) == islower(c) \/ isupper(c)
char_lower(c) == IF isupper(c) THEN LOWERCASE[CHOOSE k \in 1..26 : UPPERCASE[k] = c] ELSE c
char_upper(c) == IF islower(c) THEN UPPERCASE[CHOOSE k \in 1..26 : LOWERCASE[k] = c] ELSE c

lower(s) == [k \in 1..Len(s) |-> char_lower(s[k])]

startswith(s, p) == Len(p) <= Len(s) /\ SubSeq(s, 1, Len(p)) = p
endswith(s, p) == Len(p) <= Len(s) /\ SubSeq(s, Len(s) - Len(p) + 1, Len(s)) = p

\* s[n:] for n >= 0
drop(s, n) == SubSeq(s, n + 1, Len(s))

\* s.strip()
strip(s) ==
    LET keep == {k \in 1..Len(s) : s[k] \notin WHITESPACE}
    IN  IF keep = {} THEN <<>> ELSE SubSeq(s, Min(keep), Max(keep))

\* s.find(p) + 1: the 1-based position of the first occurrence of p, 0 if none
find(s, p) ==
    LET at == {k \in 1..(Len(s) - Len(p) + 1) : SubSeq(s, k, k + Len(p) - 1) = p}
    IN  IF at = {} THEN 0 ELSE Min(at)

contains(s, p) == find(s, p) # 0

\* s.split(p)[0]
before(s, p) == IF contains(s, p) THEN SubSeq(s, 1, find(s, p) - 1) ELSE s

\* s.split('\n'): always at least one line
RECURSIVE split_lines(_)
split_lines(s) ==
    IF ~contains(s, <<NL>>) THEN <<s>>
    ELSE <<before(s, <<NL>>)>> \o split_lines(drop(s, find(s, <<NL>>)))

\* '\n'.join(lines)
RECURSIVE join_lines(_)
join_lines(lines) ==
    IF lines = <<>> THEN <<>>
    ELSE IF Len(lines) = 1 THEN lines[1]
    ELSE lines[1] \o <<NL>> \o join_lines(Tail(lines))

\* sep.join(parts) for the blank-line separator of _build_google_body
RECURSIVE join_with(_, _)
join_with(sep, parts) ==
    IF parts = <<>> THEN <<>>
    ELSE IF Len(parts) = 1 THEN parts[1]
    ELSE parts[1] \o sep \o join_with(sep, Tail(parts))

\* _MULTIPLE_NEWLINES_PATTERN.sub('\n\n', s): a run of three or more line
\* breaks becomes two
RECURSIVE collapse_newlines(_)
collapse_newlines(s) ==
    IF ~contains(s, <<NL, NL, NL>>) THEN s
    ELSE LET at == find(s, <<NL, NL, NL>>)
             past == Min({k \in at..(Len(s) + 1) : k > Len(s) \/ s[k] # NL})
         IN  SubSeq(s, 1, at + 1) \o collapse_newlines(drop(s, past - 1))

\* a non-empty line made of dashes only
is_dashes(s) == s # <<>> /\ \A k \in 1..Len(s) : s[k] = "-"

(***************************************************************************)
(* Function metadata: a Python dict, read with .get(key, default).         *)
(***************************************************************************)
get(func_meta, key, default) ==
    IF key \in DOMAIN func_meta THEN func_meta[key] ELSE default

\* Python None: no text is equal to it
None == <<"NoneType">>

(***************************************************************************)
(* Style fixer.                                                            *)
(***************************************************************************)
\* the first entries of the present-tense -> imperative table
_IMPERATIVE_FIXES ==
    (<<"R","a","i","s","e","s">> :> <<"R","a","i","s","e">>) @@ (<<"R","e","t","u","r","n","s">> :> <<"R","e","t","u","r","n">>) @@
    (<<"Y","i","e","l","d","s">> :> <<"Y","i","e","l","d">>) @@ (<<"C","a","l","c","u","l","a","t","e","s">> :> <<"C","a","l","c","u","l","a","t","e">>)

\* the fix that keeps the new first word only
_fix_imperative_mood_first_word_only(content) ==
    IF content = <<>> THEN content
    ELSE LET lines == split_lines(content)
             first_word == before(lines[1], <<" ">>)
         IN  IF first_word \in DOMAIN _IMPERATIVE_FIXES
             THEN join_lines([lines EXCEPT ![1] = _IMPERATIVE_FIXES[first_word]])
             ELSE join_lines(lines)

_fix_imperative_mood(content) ==
    IF content = <<>> THEN content
    ELSE LET lines == split_lines(content)
             first_line == lines[1]
             first_word == before(first_line, <<" ">>)
             has_rest == contains(first_line, <<" ">>)
             rest == drop(first_line, find(first_line, <<" ">>))
         IN  IF first_word \in DOMAIN _IMPERATIVE_FIXES
             THEN join_lines([lines EXCEPT ![1] =
                      IF has_rest
                      THEN _IMPERATIVE_FIXES[first_word] \o <<" ">> \o rest
                      ELSE _IMPERATIVE_FIXES[first_word]])
             ELSE join_lines(lines)

THIS_FILLERS == << <<"f","u","n","c","t","i","o","n"," ">>, <<"m","e","t","h","o","d"," ">>, <<"c","l","a","s","s"," ">>, <<"m","o","d","u","l","e"," ">>,
                   <<"i","s"," ","a"," ">>, <<"i","s"," ","a","n"," ">>, <<"w","i","l","l"," ">> >>

\* D404: drop a leading "This " and the first filler phrase that follows it
remove_this(first_line) ==
    IF startswith(lower(first_line), <<"t","h","i","s"," ">>)
    THEN LET rest == strip(drop(first_line, 5))
             hit == {k \in 1..Len(THIS_FILLERS) : startswith(lower(rest), THIS_FILLERS[k])}
         IN  IF rest = <<>> THEN first_line
             ELSE IF hit = {} THEN rest
             ELSE drop(rest, Len(THIS_FILLERS[Min(hit)]))
    ELSE first_line

\* D403: capitalize the first character
capitalize_first(first_line) ==
    IF first_line # <<>> /\ islower(first_line[1])
    THEN <<char_upper(first_line[1])>> \o Tail(first_line)
    ELSE first_line

\* D400 without a look at the end of the line
add_period_always(first_line) == first_line \o <<".">>

\* D400: end the line with a period unless it ends with . ! ? :
add_period(first_line) ==
    IF first_line # <<>> /\ ~endswith(first_line, <<".">>)
       /\ first_line[Len(first_line)] \notin {"!", "?", ":"}
    THEN first_line \o <<".">>
    ELSE first_line

_fix_pep257_first_line(content) ==
    IF content = <<>> THEN content
    ELSE LET lines == split_lines(content)
             first_line == strip(lines[1])
         IN  IF first_line = <<>> THEN content
             ELSE join_lines([lines EXCEPT ![1] =
                      add_period(capitalize_first(remove_this(first_line)))])

(***************************************************************************)
(* Response sanitizer: _post_process_docstring.                            *)
(***************************************************************************)
NoMatch == <<>>

GOOGLE_SECTIONS == { <<"a","r","g","s">>, <<"p","a","r","a","m","e","t","e","r","s">>, <<"r","e","t","u","r","n","s">>, <<"r","a","i","s","e","s">>, <<"y","i","e","l","d","s">>,
                     <<"a","t","t","r","i","b","u","t","e","s">>, <<"e","x","a","m","p","l","e">>, <<"e","x","a","m","p","l","e","s">>, <<"n","o","t","e">>, <<"n","o","t","e","s">>,
                     <<"s","e","e"," ","a","l","s","o">>, <<"w","a","r","n","i","n","g">>, <<"w","a","r","n","i","n","g","s">> }

NUMPY_SECTIONS == { <<"p","a","r","a","m","e","t","e","r","s">>, <<"r","e","t","u","r","n","s">>, <<"r","a","i","s","e","s">>, <<"y","i","e","l","d","s">>,
                    <<"a","t","t","r","i","b","u","t","e","s">>, <<"e","x","a","m","p","l","e">>, <<"e","x","a","m","p","l","e","s">>, <<"n","o","t","e">>, <<"n","o","t","e","s">>,
                    <<"s","e","e"," ","a","l","s","o">>, <<"w","a","r","n","i","n","g">>, <<"w","a","r","n","i","n","g","s">> }

\* the alternatives of the reST pattern in the order the regex tries them,
\* the optional s taken when it is there
REST_DIRECTIVES == << <<"p","a","r","a","m">>, <<"r","e","t","u","r","n","s">>, <<"r","e","t","u","r","n">>, <<"r","t","y","p","e">>, <<"r","a","i","s","e","s">>,
                      <<"r","a","i","s","e">>, <<"y","i","e","l","d","s">>, <<"y","i","e","l","d">>, <<"t","y","p","e">>, <<"n","o","t","e">>,
                      <<"e","x","a","m","p","l","e">> >>

\* _GOOGLE_SECTION_PATTERN.match(stripped): group(1).lower(), or NoMatch
google_match(stripped) ==
    LET head == lower(before(stripped, <<":">>))
    IN  IF contains(stripped, <<":">>) /\ head \in GOOGLE_SECTIONS THEN head ELSE NoMatch

\* _NUMPY_SECTION_PATTERN.match(stripped)
numpy_match(stripped) ==
    IF lower(stripped) \in NUMPY_SECTIONS THEN lower(stripped) ELSE NoMatch

\* _REST_SECTION_PATTERN.match(stripped)
rest_match(stripped) ==
    LET hit == {k \in 1..Len(REST_DIRECTIVES) :
                    startswith(lower(stripped), <<":">> \o REST_DIRECTIVES[k])}
    IN  IF hit = {} THEN NoMatch ELSE REST_DIRECTIVES[Min(hit)]

REST_STYLES == {"rest", "restructuredtext"}

section_pattern_match(style, stripped) ==
    IF style = "numpy" THEN numpy_match(stripped)
    ELSE IF style \in REST_STYLES THEN rest_match(stripped)
    ELSE google_match(stripped)

\* the normalisation of a matched header's name
normalize_section(section_name) ==
    IF section_name \in { <<"r","a","i","s","e">>, <<"r","a","i","s","e","d">> } THEN <<"r","a","i","s","e","s">>
    ELSE IF section_name \in { <<"r","e","t","u","r","n">>, <<"r","t","y","p","e">> } THEN <<"r","e","t","u","r","n","s">>
    ELSE IF section_name = <<"y","i","e","l","d">> THEN <<"y","i","e","l","d","s">>
    ELSE IF section_name = <<"e","x","a","m","p","l","e","s">> THEN <<"e","x","a","m","p","l","e">>
    ELSE IF section_name = <<"n","o","t","e","s">> THEN <<"n","o","t","e">>
    ELSE section_name

\* the normalisation of the reST re-match inside a skipped section
normalize_directive(section_name) ==
    IF section_name \in { <<"r","a","i","s","e">>, <<"r","a","i","s","e","s">> } THEN <<"r","a","i","s","e","s">>
    ELSE IF section_name \in { <<"r","e","t","u","r","n">>, <<"r","e","t","u","r","n","s">>, <<"r","t","y","p","e">> } THEN <<"r","e","t","u","r","n","s">>
    ELSE IF section_name \in { <<"y","i","e","l","d">>, <<"y","i","e","l","d","s">> } THEN <<"y","i","e","l","d","s">>
    ELSE section_name

invalid_sections(func_meta) ==
    (IF get(func_meta, "raises", <<>>) = <<>> THEN { <<"r","a","i","s","e","s">> } ELSE {})
    \cup (IF ~get(func_meta, "has_return", FALSE) THEN { <<"r","e","t","u","r","n","s">> } ELSE {})
    \cup (IF ~get(func_meta, "has_yields", FALSE) THEN { <<"y","i","e","l","d","s">> } ELSE {})
    \cup { <<"n","o","t","e">>, <<"e","x","a","m","p","l","e">>, <<"s","e","e"," ","a","l","s","o">>, <<"a","t","t","r","i","b","u","t","e","s">> }

\* The first loop: drop the header and the body of every invalid section.
\* i is the 1-based index of the line looked at; skip is skip_current_section.
RECURSIVE remove_invalid_sections(_, _, _, _, _, _)
remove_invalid_sections(lines, i, result_lines, skip, invalid, style) ==
    IF i > Len(lines) THEN result_lines
    ELSE
    LET line == lines[i]
        stripped == strip(line)
        section_match == section_pattern_match(style, stripped)
        skip_here == IF section_match # NoMatch
                     THEN normalize_section(section_match) \in invalid
                     ELSE skip
        is_content == stripped = <<>> \/ startswith(line, <<" "," "," "," ">>)
                      \/ startswith(line, <<TAB>>)
    IN  IF section_match # NoMatch /\ skip_here
        THEN \* an invalid header; for NumPy its underline goes with it
             IF style = "numpy" /\ i + 1 <= Len(lines) /\ is_dashes(strip(lines[i + 1]))
             THEN remove_invalid_sections(lines, i + 2, result_lines, TRUE, invalid, style)
             ELSE remove_invalid_sections(lines, i + 1, result_lines, TRUE, invalid, style)
        ELSE IF style = "numpy" /\ is_dashes(stripped) /\ skip_here
        THEN remove_invalid_sections(lines, i + 1, result_lines, skip_here, invalid, style)
        ELSE IF skip_here
        THEN IF style \in REST_STYLES /\ startswith(stripped, <<":">>)
                /\ section_pattern_match(style, stripped) # NoMatch
             THEN IF normalize_directive(section_pattern_match(style, stripped)) \in invalid
                  THEN remove_invalid_sections(lines, i + 1, result_lines, TRUE, invalid, style)
                  ELSE remove_invalid_sections(lines, i + 1, Append(result_lines, line),
                                               FALSE, invalid, style)
             ELSE IF is_content
             THEN remove_invalid_sections(lines, i + 1, result_lines, skip_here, invalid, style)
             ELSE remove_invalid_sections(lines, i + 1, Append(result_lines, line),
                                          FALSE, invalid, style)
        ELSE remove_invalid_sections(lines, i + 1, Append(result_lines, line),
                                     skip_here, invalid, style)

\* no line is taken for an exception name
exception_match_never(stripped) == FALSE

\* _EXCEPTION_PATTERN.match(stripped): ^[A-Z][a-zA-Z]*(Error|Exception)$
exception_match(stripped) ==
    /\ stripped # <<>>
    /\ isupper(stripped[1])
    /\ \A k \in 1..Len(stripped) : isalpha(stripped[k])
    /\ \/ endswith(stripped, <<"E","r","r","o","r">>) /\ Len(stripped) > 5
       \/ endswith(stripped, <<"E","x","c","e","p","t","i","o","n">>) /\ Len(stripped) > 9

\* the index after the indented description lines that follow line i - 1
RECURSIVE skip_description(_, _)
skip_description(lines, i) ==
    IF i <= Len(lines) /\ strip(lines[i]) # <<>> /\ startswith(lines[i], <<" "," "," "," ">>)
    THEN skip_description(lines, i + 1)
    ELSE i

\* the index of the first non-blank line at or after j
RECURSIVE skip_blank(_, _)
skip_blank(lines, j) ==
    IF j <= Len(lines) /\ strip(lines[j]) = <<>> THEN skip_blank(lines, j + 1) ELSE j

\* The second loop: standalone None lines, exception names that are not in
\* the metadata, empty NumPy Attributes sections.
RECURSIVE sweep_hallucinated(_, _, _, _)
sweep_hallucinated(lines, i, cleaned_lines, actual_raises) ==
    IF i > Len(lines) THEN cleaned_lines
    ELSE
    LET line == lines[i]
        stripped == strip(line)
        j == skip_blank(lines, i + 2)
    IN  IF stripped = <<"N","o","n","e">>
        THEN sweep_hallucinated(lines, i + 1, cleaned_lines, actual_raises)
        ELSE IF exception_match(stripped) /\ stripped \notin actual_raises
        THEN sweep_hallucinated(lines, skip_description(lines, i + 1), cleaned_lines,
                                actual_raises)
        ELSE IF /\ stripped = <<"A","t","t","r","i","b","u","t","e","s">>
                /\ i + 1 <= Len(lines) /\ is_dashes(strip(lines[i + 1]))
                /\ \/ j > Len(lines)
                   \/ strip(lines[j]) = <<"N","o","n","e">>
                   \/ ~startswith(lines[j], <<" "," "," "," ">>)
        THEN sweep_hallucinated(lines,
                                IF j <= Len(lines) /\ strip(lines[j]) = <<"N","o","n","e">>
                                THEN j + 1 ELSE j,
                                cleaned_lines, actual_raises)
        ELSE sweep_hallucinated(lines, i + 1, Append(cleaned_lines, line), actual_raises)

\* The third loop: everything from the first Note line on is dropped.
truncate_at_note(lines) ==
    LET notes == {k \in 1..Len(lines) :
                     \/ startswith(strip(lines[k]), <<"N","o","t","e",":">>)
                     \/ startswith(strip(lines[k]), <<"N","o","t","e"," ">>)}
    IN  IF notes = {} THEN lines ELSE SubSeq(lines, 1, Min(notes) - 1)

\* a Python list of str as the set actual_raises
RangeOf(seq) == {seq[k] : k \in 1..Len(seq)}

_post_process_docstring(content, func_meta, style) ==
    LET result1 == collapse_newlines(join_lines(
                       remove_invalid_sections(split_lines(content), 1, <<>>, FALSE,
                                               invalid_sections(func_meta), style)))
        result2 == collapse_newlines(join_lines(
                       sweep_hallucinated(split_lines(result1), 1, <<>>,
                                          RangeOf(get(func_meta, "raises", <<>>)))))
        result3 == collapse_newlines(join_lines(truncate_at_note(split_lines(result2))))
    IN  strip(_fix_pep257_first_line(_fix_imperative_mood(result3)))

(***************************************************************************)
(* Cleanup of a model response (the body of the try in _generate_with_groq *)
(* and in _fallback_generate).                                             *)
(***************************************************************************)
DQ3 == <<DQ, DQ, DQ>>
SQ3 == <<SQ, SQ, SQ>>
FENCE == <<BT, BT, BT>>

\* one enclosing layer of triple quotes, either quote style
strip_enclosing_quotes(content) ==
    IF startswith(content, DQ3) /\ endswith(content, DQ3)
    THEN strip(SubSeq(content, 4, Len(content) - 3))
    ELSE IF startswith(content, SQ3) /\ endswith(content, SQ3)
    THEN strip(SubSeq(content, 4, Len(content) - 3))
    ELSE content

preamble_patterns == <<
    <<"H","e","r","e",SQ,"s"," ","t","h","e"," ","g","e","n","e","r","a","t","e","d"," ","d","o","c","s","t","r","i","n","g"," ","f","o","r"," ","t","h","e"," ","g","i","v","e","n"," ","f","u","n","c","t","i","o","n",":">>,
    <<"H","e","r","e",SQ,"s"," ","t","h","e"," ","g","e","n","e","r","a","t","e","d"," ","d","o","c","s","t","r","i","n","g",":">>,
    <<"H","e","r","e",SQ,"s"," ","t","h","e"," ","d","o","c","s","t","r","i","n","g",":">>,
    <<"H","e","r","e"," ","i","s"," ","t","h","e"," ","g","e","n","e","r","a","t","e","d"," ","d","o","c","s","t","r","i","n","g"," ","f","o","r"," ","t","h","e"," ","g","i","v","e","n"," ","f","u","n","c","t","i","o","n",":">>,
    <<"H","e","r","e"," ","i","s"," ","t","h","e"," ","g","e","n","e","r","a","t","e","d"," ","d","o","c","s","t","r","i","n","g",":">>,
    <<"H","e","r","e"," ","i","s"," ","t","h","e"," ","d","o","c","s","t","r","i","n","g",":">>,
    <<"H","e","r","e",SQ,"s"," ","a"," ","d","o","c","s","t","r","i","n","g"," ","f","o","r"," ","t","h","e"," ","f","u","n","c","t","i","o","n",":">>,
    <<"H","e","r","e"," ","i","s"," ","a"," ","d","o","c","s","t","r","i","n","g"," ","f","o","r"," ","t","h","e"," ","f","u","n","c","t","i","o","n",":">>,
    <<"G","e","n","e","r","a","t","e","d"," ","d","o","c","s","t","r","i","n","g",":">>,
    <<"S","h","o","r","t"," ","d","e","s","c","r","i","p","t","i","o","n"," ","o","f"," ","t","h","e"," ","f","u","n","c","t","i","o","n",".">> >>

\* the first preamble the content starts with (ignoring case) is cut off
strip_preamble(content) ==
    LET hit == {k \in 1..Len(preamble_patterns) :
                    startswith(lower(content), lower(preamble_patterns[k]))}
    IN  IF hit = {} THEN content
        ELSE strip(drop(content, Len(preamble_patterns[Min(hit)])))

\* everything from the first occurrence of the marker on is dropped
truncate_at(content, marker) ==
    IF contains(content, marker) THEN strip(before(content, marker)) ELSE content

\* lines 729-768: from response.content to the post-processed content
clean_primary_response(response_content, func_meta, style) ==
    LET content == truncate_at(truncate_at(truncate_at(
                       strip_preamble(strip_enclosing_quotes(strip(response_content))),
                       FENCE), DQ3), SQ3)
    IN  _post_process_docstring(content, func_meta, style)

\* lines 975-985: the lighter cleanup of the fallback's response
clean_fallback_response(response_content) ==
    truncate_at(truncate_at(strip_enclosing_quotes(strip(response_content)), FENCE), DQ3)

(***************************************************************************)
(* Template builders.                                                      *)
(***************************************************************************)
_infer_type(annotation) ==
    IF annotation = None \/ annotation = <<>> THEN <<"A","n","y">> ELSE annotation

_infer_param_desc(name) == name \o <<" ","v","a","l","u","e",".">>

_infer_return_desc(func_name) == <<"R","e","s","u","l","t"," ","o","f"," ">> \o func_name \o <<".">>

_infer_attr_desc(name) == name \o <<" ","a","t","t","r","i","b","u","t","e",".">>

_humanize_name(name) ==
    IF name = <<>> THEN <<>>
    ELSE LET human == [k \in 1..Len(name) |-> IF name[k] = "_" THEN " " ELSE name[k]]
         IN  <<char_upper(human[1])>> \o Tail(human)

\* [f(x) for x in seq], flattened when f gives several lines
RECURSIVE flat_map(_, _)
flat_map(f(_), seq) ==
    IF seq = <<>> THEN <<>> ELSE f(Head(seq)) \o flat_map(f, Tail(seq))

_build_google_body(func_meta) ==
    LET name == get(func_meta, "name", <<"<","f","u","n","c","t","i","o","n",">">>)
        args_meta == get(func_meta, "args_meta", <<>>)
        has_return == get(func_meta, "has_return", FALSE)
        returns == get(func_meta, "returns", None)
        raises == get(func_meta, "raises", <<>>)
        has_yields == get(func_meta, "has_yields", FALSE)
        yields == get(func_meta, "yields", None)
        attributes == get(func_meta, "attributes", <<>>)
        arg_line(arg) == << <<" "," "," "," ">> \o arg.name \o <<" ","(">>
                            \o _infer_type(get(arg, "annotation", None)) \o <<")",":"," ">>
                            \o _infer_param_desc(arg.name) >>
        attr_line(attr) == << <<" "," "," "," ">> \o attr \o <<" ","(">> \o _infer_type(None) \o <<")",":"," ">>
                              \o _infer_attr_desc(attr) >>
        raise_line(r) == << <<" "," "," "," ">> \o r \o <<":"," ","I","f"," ","a","n"," ","e","r","r","o","r"," ","o","c","c","u","r","s",".">> >>
        parts ==
            << <<"S","h","o","r","t"," ","d","e","s","c","r","i","p","t","i","o","n"," ","o","f"," ">> \o <<BT>> \o name \o <<BT>> \o <<".">> >>
            \o (IF args_meta # <<>>
                THEN <<join_lines(<< <<"A","r","g","s",":">> >> \o flat_map(arg_line, args_meta))>>
                ELSE <<>>)
            \o (IF has_return
                THEN << <<"R","e","t","u","r","n","s",":",NL," "," "," "," ">> \o _infer_type(returns) \o <<":"," ">>
                        \o _infer_return_desc(name) >>
                ELSE <<>>)
            \o (IF has_yields
                THEN << <<"Y","i","e","l","d","s",":",NL," "," "," "," ">> \o _infer_type(yields) \o <<":"," ","Y","i","e","l","d","e","d"," ","v","a","l","u","e","s",".">> >>
                ELSE <<>>)
            \o (IF attributes # <<>>
                THEN <<join_lines(<< <<"A","t","t","r","i","b","u","t","e","s",":">> >> \o flat_map(attr_line, attributes))>>
                ELSE <<>>)
            \o (IF raises # <<>>
                THEN <<join_lines(<< <<"R","a","i","s","e","s",":">> >> \o flat_map(raise_line, raises))>>
                ELSE <<>>)
    IN  join_with(<<NL, NL>>, parts)

_build_numpy_body(func_meta) ==
    LET name == get(func_meta, "name", <<"<","f","u","n","c","t","i","o","n",">">>)
        args_meta == get(func_meta, "args_meta", <<>>)
        has_return == get(func_meta, "has_return", FALSE)
        returns == get(func_meta, "returns", None)
        raises == get(func_meta, "raises", <<>>)
        has_yields == get(func_meta, "has_yields", FALSE)
        yields == get(func_meta, "yields", None)
        attributes == get(func_meta, "attributes", <<>>)
        arg_lines(arg) == << arg.name \o <<" ",":"," ">> \o _infer_type(get(arg, "annotation", None)),
                             <<" "," "," "," ">> \o _infer_param_desc(arg.name) >>
        attr_lines(attr) == << attr \o <<" ",":"," ">> \o _infer_type(None),
                               <<" "," "," "," ">> \o _infer_attr_desc(attr) >>
        raise_lines(r) == << r, <<" "," "," "," ","I","f"," ","a","n"," ","e","r","r","o","r"," ","o","c","c","u","r","s",".">> >>
        parts ==
            << _humanize_name(name) \o <<" ","s","u","m","m","a","r","y",".">> >>
            \o (IF args_meta # <<>>
                THEN << <<NL,"P","a","r","a","m","e","t","e","r","s",NL,"-","-","-","-","-","-","-","-","-","-">> >> \o flat_map(arg_lines, args_meta)
                ELSE <<>>)
            \o (IF has_return
                THEN << <<NL,"R","e","t","u","r","n","s",NL,"-","-","-","-","-","-","-">>, _infer_type(returns),
                        <<" "," "," "," ">> \o _infer_return_desc(name) >>
                ELSE <<>>)
            \o (IF has_yields
                THEN << <<NL,"Y","i","e","l","d","s",NL,"-","-","-","-","-","-">>, _infer_type(yields), <<" "," "," "," ","Y","i","e","l","d","e","d"," ","v","a","l","u","e","s",".">> >>
                ELSE <<>>)
            \o (IF attributes # <<>>
                THEN << <<NL,"A","t","t","r","i","b","u","t","e","s",NL,"-","-","-","-","-","-","-","-","-","-">> >> \o flat_map(attr_lines, attributes)
                ELSE <<>>)
            \o (IF raises # <<>>
                THEN << <<NL,"R","a","i","s","e","s",NL,"-","-","-","-","-","-">> >> \o flat_map(raise_lines, raises)
                ELSE <<>>)
    IN  join_lines(parts)

\* the reST builder answering in google style
_build_rest_body_google(func_meta) == _build_google_body(func_meta)

_build_rest_body(func_meta) ==
    LET name == get(func_meta, "name", <<"<","f","u","n","c","t","i","o","n",">">>)
        args_meta == get(func_meta, "args_meta", <<>>)
        has_return == get(func_meta, "has_return", FALSE)
        returns == get(func_meta, "returns", None)
        raises == get(func_meta, "raises", <<>>)
        has_yields == get(func_meta, "has_yields", FALSE)
        yields == get(func_meta, "yields", None)
        attributes == get(func_meta, "attributes", <<>>)
        arg_lines(arg) == << <<":","p","a","r","a","m"," ">> \o arg.name \o <<":"," ">> \o _infer_param_desc(arg.name),
                             <<":","t","y","p","e"," ">> \o arg.name \o <<":"," ">>
                             \o _infer_type(get(arg, "annotation", None)) >>
        attr_line(attr) == << <<":","a","t","t","r","i","b","u","t","e"," ">> \o attr \o <<":"," ">> \o _infer_attr_desc(attr) >>
        raise_line(r) == << <<":","r","a","i","s","e","s"," ">> \o r \o <<":"," ","I","f"," ","a","n"," ","e","r","r","o","r"," ","o","c","c","u","r","s",".">> >>
        parts ==
            << _humanize_name(name) \o <<" ","d","e","s","c","r","i","p","t","i","o","n",".">>, <<>> >>
            \o flat_map(arg_lines, args_meta)
            \o (IF has_return
                THEN << <<":","r","e","t","u","r","n","s",":"," ">> \o _infer_return_desc(name),
                        <<":","r","t","y","p","e",":"," ">> \o _infer_type(returns) >>
                ELSE <<>>)
            \o (IF has_yields
                THEN << <<":","y","i","e","l","d","s",":"," ","Y","i","e","l","d","e","d"," ","v","a","l","u","e","s",".">>, <<":","y","t","y","p","e",":"," ">> \o _infer_type(yields) >>
                ELSE <<>>)
            \o flat_map(attr_line, attributes)
            \o flat_map(raise_line, raises)
    IN  join_lines(parts)

\* lines 992-999: the last resort of _fallback_generate
template_body(func_meta, style) ==
    IF style = "google" THEN _build_google_body(func_meta)
    ELSE IF style = "numpy" THEN _build_numpy_body(func_meta)
    ELSE IF style \in REST_STYLES THEN _build_rest_body(func_meta)
    ELSE _build_google_body(func_meta)

(***************************************************************************)
(* Cache fingerprint.  The MD5 digest of the JSON text is taken to be      *)
(* injective, so the key is the dumped data itself.                        *)
(***************************************************************************)
\* the fingerprint that leaves the yields annotation out
_create_cache_key_without_yields(func_meta, style) ==
    [name |-> get(func_meta, "name", <<>>),
     args_meta |-> get(func_meta, "args_meta", <<>>),
     has_return |-> get(func_meta, "has_return", FALSE),
     returns |-> get(func_meta, "returns", None),
     raises |-> get(func_meta, "raises", <<>>),
     has_yields |-> get(func_meta, "has_yields", FALSE),
     yields |-> None,
     style |-> style,
     source_code |-> get(func_meta, "source_code", <<>>)]

_create_cache_key(func_meta, style) ==
    [name |-> get(func_meta, "name", <<>>),
     args_meta |-> get(func_meta, "args_meta", <<>>),
     has_return |-> get(func_meta, "has_return", FALSE),
     returns |-> get(func_meta, "returns", None),
     raises |-> get(func_meta, "raises", <<>>),
     has_yields |-> get(func_meta, "has_yields", FALSE),
     yields |-> get(func_meta, "yields", None),
     style |-> style,
     source_code |-> get(func_meta, "source_code", <<>>)]

(***************************************************************************)
(* generate_module_docstring: the text functions.                          *)
(***************************************************************************)
\* os.path.basename
basename(path) ==
    LET slashes == {k \in 1..Len(path) : path[k] = "/"}
    IN  IF slashes = {} THEN path ELSE drop(path, Max(slashes))

\* os.path.splitext(file_name)[0]: a leading run of dots is no extension
splitext_root(file_name) ==
    LET dots == {k \in 1..Len(file_name) : file_name[k] = "."}
    IN  IF dots = {} \/ (\A j \in 1..Max(dots) : file_name[j] = ".")
        THEN file_name
        ELSE SubSeq(file_name, 1, Max(dots) - 1)

\* str.replace("_", " ")
underscores_to_spaces(s) == [k \in 1..Len(s) |-> IF s[k] = "_" THEN " " ELSE s[k]]

\* str.title
title(s) ==
    [k \in 1..Len(s) |->
        IF ~isalpha(s[k]) THEN s[k]
        ELSE IF k = 1 \/ ~isalpha(s[k - 1]) THEN char_upper(s[k])
        ELSE char_lower(s[k])]

\* lines 1103-1107: the template of the except clause
module_template(path) ==
    title(underscores_to_spaces(splitext_root(basename(path)))) \o <<" ","m","o","d","u","l","e",".">>

\* lines 1092-1095: a first line that starts with "here" goes, when more follows
strip_here_line(body) ==
    IF startswith(lower(body), <<"h","e","r","e">>) /\ contains(body, <<NL>>)
    THEN strip(drop(body, find(body, <<NL>>)))
    ELSE body

\* lines 1083-1101: from response.content to the returned text
clean_module_response(response_content) ==
    strip(_fix_pep257_first_line(_fix_imperative_mood(
        strip_here_line(strip_enclosing_quotes(strip(response_content))))))

(***************************************************************************)
(* The inputs the callers and the model service are drawn from.            *)
(***************************************************************************)
\* the number of generate_docstring calls of one run
MaxCalls == 2

STYLES == {"google", "numpy", "rest", "none"}

\* the metadata the parser hands over: a minimal one, the calc_sum of the
\* end-to-end scenario, a generator method that raises and sets an attribute
MINIMAL_META == [name |-> <<"f">>]

CALC_SUM_META ==
    [name |-> <<"c","a","l","c","_","s","u","m">>,
     args_meta |-> << [name |-> <<"a">>, annotation |-> <<"i","n","t">>],
                      [name |-> <<"b">>, annotation |-> <<"i","n","t">>] >>,
     has_return |-> TRUE, returns |-> <<"i","n","t">>, raises |-> <<>>, has_yields |-> FALSE]

METHOD_META ==
    [name |-> <<"s","c","a","n">>,
     args_meta |-> << [name |-> <<"n">>] >>,
     has_return |-> FALSE, returns |-> None, raises |-> << <<"V","a","l","u","e","E","r","r","o","r">> >>,
     has_yields |-> TRUE, yields |-> <<"i","n","t">>, attributes |-> << <<"p","o","s">> >>]

METAS == {MINIMAL_META, CALC_SUM_META, METHOD_META}

\* what response.content can be: nothing; a summary wrapped in triple quotes;
\* a body that opens with a stray None line, carries a Raises section and
\* ends in a stray delimiter
EMPTY_RESPONSE == <<>>
WRAPPED_RESPONSE == <<DQ,DQ,DQ,"C","a","l","c","u","l","a","t","e","s"," ","t","h","e"," ","s","u","m",".",DQ,DQ,DQ>>
DEFECTIVE_RESPONSE == <<"N","o","n","e",NL,NL,"s","u","m",NL,NL,"R","a","i","s","e","s",":",NL," "," "," "," ","V","a","l","u","e","E","r","r","o","r",":"," ","b","a","d"," ",SQ,SQ,SQ," ","x">>

RESPONSES == {EMPTY_RESPONSE, WRAPPED_RESPONSE, DEFECTIVE_RESPONSE}

\* the files generate_module_docstring is asked about, what it is handed or
\* reads as their text, and what the model answers: nothing, a wrapped
\* summary, a summary behind a preamble line
FILE_PATHS == {<<"s","r","c","/","d","a","t","a","_","u","t","i","l","s",".","p","y">>}
FILE_CONTENTS == {<<>>, <<"i","m","p","o","r","t"," ","o","s">>}
HERE_RESPONSE == <<"H","e","r","e"," ","i","s"," ","t","h","e"," ","d","o","c","s","t","r","i","n","g",":",NL,"t","h","i","s"," ","m","o","d","u","l","e"," ","p","r","o","v","i","d","e","s"," ","h","e","l","p","e","r","s">>
MODULE_RESPONSES == {EMPTY_RESPONSE, WRAPPED_RESPONSE, HERE_RESPONSE}

(***************************************************************************)
(* State.                                                                  *)
(***************************************************************************)
VARIABLES
    _docstring_cache,   \* the module-level dict: cache key -> docstring body
    _groq_client,       \* the module-level client: "None" or "ChatGroq"
    api_key,            \* whether GROQ_API_KEY is set in the environment
    constructions,      \* ChatGroq(...) constructor calls since import
    pc,                 \* where the running call is: "idle", "generate" (the top of
                        \* _generate_with_groq), "fallback", "returned", "raised"
    func_meta,          \* the arguments of the running call
    style,
    skip_cache,         \* skip_cache and retry_count of the running
    retry_count,        \* _generate_with_groq frame
    result,             \* the value the call returned
    \* history of the run, read by the properties only
    n_calls,            \* calls completed
    caller_skip_cache,  \* the skip_cache the caller passed
    cache_before,       \* _docstring_cache when the call started
    client_before,      \* _groq_client when the call started
    invocations,        \* client.invoke calls of the primary prompt in this call
    fallback_invocations, \* client.invoke calls of the fallback prompt in this call
    failed,             \* a primary attempt of this call raised
    source,             \* the path the result came from
    first_call,         \* the first call of the run without bypass (none yet: <<>>,
                        \* then a one-element sequence): its cache key,
                        \* its result, and whether that result is settled: it was a
                        \* cache hit or a primary result and no call with bypass has
                        \* stored a new result for the key since
    memo,               \* the cleanup and template functions tabulated over the
                        \* inputs of the run; never changes
    file_path,          \* the arguments of the running generate_module_docstring
    file_content,       \* call
    module_invocations, \* client.invoke calls of the module prompt in this call
    module_response,    \* response.content of the module prompt in this call
    \* a pure function applied on its own
    args,               \* its arguments, by parameter name
    output,             \* what it returned
    applied,            \* the name of the function applied, "none" before
    \* callers in threads of their own
    threads             \* per thread: where its generate_docstring call is, the
                        \* arguments and locals of the call, what it returned

call_vars == <<func_meta, style, skip_cache, retry_count, result>>
module_vars == <<_docstring_cache, _groq_client, api_key, constructions>>
history_vars == <<n_calls, caller_skip_cache, cache_before, client_before, invocations,
                  fallback_invocations, failed, source, first_call>>
module_call_vars == <<file_path, file_content, module_invocations, module_response>>
function_vars == <<args, output, applied>>
vars == <<module_vars, pc, call_vars, history_vars, memo, module_call_vars, function_vars,
          threads>>

\* the pure functions of the pipeline, computed once for the inputs of the run
Memo ==
    [primary |-> [r \in RESPONSES, m \in METAS, s \in STYLES |->
                     clean_primary_response(r, m, s)],
     fallback |-> [r \in RESPONSES |-> clean_fallback_response(r)],
     template |-> [m \in METAS, s \in STYLES |-> template_body(m, s)],
     cache_key |-> [m \in METAS, s \in STYLES |-> _create_cache_key(m, s)],
     module |-> [r \in MODULE_RESPONSES |-> clean_module_response(r)],
     module_template |-> [path \in FILE_PATHS |-> module_template(path)]]

NoMeta == [name |-> <<>>]
NoCall == <<>>
EmptyDict == [k \in {} |-> <<>>]

\* the module right after import
\* the threads that call generate_docstring, and the calls they may make
\* between them
THREADS == {1, 2}

MaxThreadCalls == 3

\* a thread that has not called yet
IdleThread ==
    [pc |-> "idle", func_meta |-> NoMeta, style |-> "none", cache_key |-> <<>>,
     skip_cache |-> FALSE,
     caller_skip_cache |-> FALSE, retry_count |-> 0, in_fallback |-> FALSE,
     result |-> <<>>, source |-> "none", invoked |-> FALSE, n_calls |-> 0,
     raced_with |-> {}]

Imported ==
    /\ threads = [t \in THREADS |-> IdleThread]
    /\ _docstring_cache = EmptyDict
    /\ _groq_client = "None"
    /\ api_key \in BOOLEAN
    /\ constructions = 0
    /\ pc = "idle"
    /\ func_meta = NoMeta /\ style = "none" /\ skip_cache = FALSE /\ retry_count = 0
    /\ result = <<>>
    /\ n_calls = 0 /\ caller_skip_cache = FALSE
    /\ cache_before = EmptyDict /\ client_before = "None"
    /\ invocations = 0 /\ fallback_invocations = 0 /\ failed = FALSE
    /\ source = "none"
    /\ first_call = NoCall
    /\ memo = Memo
    /\ file_path = <<>> /\ file_content = <<>> /\ module_invocations = 0
    /\ module_response = <<>>

NoArgs == <<>>

Init ==
    /\ Imported
    /\ args = NoArgs /\ output = <<>> /\ applied = "none"

(***************************************************************************)
(* _get_groq_client: raises when there is no client yet and no credential, *)
(* otherwise the (possibly just built) shared client.                      *)
(***************************************************************************)
\* the credential is never looked at
_get_groq_client_raises_never == FALSE

_get_groq_client_raises == _groq_client = "None" /\ ~api_key

_get_groq_client == "ChatGroq"

\* a client is built at every call
builds_client_always(client) == TRUE

\* line 295: a client is built when there is none yet
builds_client(client) == client = "None"

\* a successful _get_groq_client(): the shared client afterwards, and the
\* constructor call when one was made
GetsClient ==
    /\ _groq_client' = _get_groq_client
    /\ constructions' = constructions + (IF builds_client(_groq_client) THEN 1 ELSE 0)

(***************************************************************************)
(* generate_docstring and _generate_with_groq.                             *)
(***************************************************************************)
\* line 713
MAX_RETRIES == 2

cache_key == _create_cache_key(func_meta, style)

\* the cache is never consulted
cache_hit_never(skip, key, cache) == FALSE

\* the cache answers the callers that asked to bypass it
cache_hit_when_bypassed(skip, key, cache) == skip /\ key \in DOMAIN cache

\* line 717: the cache answers
cache_hit(skip, key, cache) == ~skip /\ key \in DOMAIN cache

\* the emptiness check is missing
is_empty_unchecked(content) == FALSE

\* line 771: the cleaned result is empty
is_empty(content) == content = <<>> \/ strip(content) = <<>>

\* retry whatever the counter says
should_retry_always(retries) == TRUE

\* one retry too many
should_retry_once_more(retries) == retries <= MAX_RETRIES

\* line 772: an empty result is tried again
should_retry(retries) == retries < MAX_RETRIES

\* the new entry replaces the dictionary
cache_store_alone(cache, key, content) == (key :> content)

\* the first result stored for a key stays
cache_store_first_wins(cache, key, content) ==
    IF key \in DOMAIN cache THEN cache ELSE (key :> content) @@ cache

\* line 780
cache_store(cache, key, content) == (key :> content) @@ cache

\* whatever the fallback's model call answers is returned
is_usable_unchecked(content) == TRUE

\* line 987: the fallback's response is usable
is_usable(content) == content # <<>> /\ strip(content) # <<>>

\* arg['name'] of the template builders fails on an argument without a name
template_raises(meta) ==
    \E k \in 1..Len(get(meta, "args_meta", <<>>)) : "name" \notin DOMAIN meta.args_meta[k]

Returns(value, from) ==
    /\ pc' = "returned"
    /\ result' = value
    /\ source' = from

\* the entry point without the short-circuit for the style none
generate_docstring_without_none(meta, s, skip) ==
    /\ pc = "idle"
    /\ n_calls < MaxCalls
    /\ func_meta' = meta /\ style' = s /\ caller_skip_cache' = skip
    /\ cache_before' = _docstring_cache /\ client_before' = _groq_client
    /\ pc' = "generate" /\ skip_cache' = skip /\ retry_count' = 0
    /\ UNCHANGED <<result, source>>
    /\ UNCHANGED <<module_vars, n_calls, invocations, fallback_invocations, failed,
                   first_call, memo, threads, module_call_vars, function_vars>>

\* lines 1006-1022: the entry point
generate_docstring(meta, s, skip) ==
    /\ pc = "idle"
    /\ n_calls < MaxCalls
    /\ func_meta' = meta /\ style' = s /\ caller_skip_cache' = skip
    /\ cache_before' = _docstring_cache /\ client_before' = _groq_client
    /\ IF s = "none"
       THEN Returns(<<>>, "none") /\ UNCHANGED <<skip_cache, retry_count>>
       ELSE /\ pc' = "generate" /\ skip_cache' = skip /\ retry_count' = 0
            /\ UNCHANGED <<result, source>>
    /\ UNCHANGED <<module_vars, n_calls, invocations, fallback_invocations, failed,
                   first_call, memo, threads, module_call_vars, function_vars>>

\* lines 716-718: the fingerprint is cached and the caller did not bypass
CacheHit ==
    /\ pc = "generate"
    /\ cache_hit(skip_cache, cache_key, _docstring_cache)
    /\ Returns(_docstring_cache[cache_key], "cache")
    /\ UNCHANGED <<module_vars, func_meta, style, skip_cache, retry_count, n_calls,
                   caller_skip_cache, cache_before, client_before, invocations,
                   fallback_invocations, failed, first_call, memo, threads, module_call_vars, function_vars>>

\* line 721 raises: no client and no credential; caught at line 783
PrimaryClientFails ==
    /\ pc = "generate"
    /\ ~cache_hit(skip_cache, cache_key, _docstring_cache)
    /\ _get_groq_client_raises
    /\ pc' = "fallback"
    /\ failed' = TRUE
    /\ UNCHANGED <<module_vars, call_vars, n_calls, caller_skip_cache, cache_before,
                   client_before, invocations, fallback_invocations, source,
                   first_call, memo, threads, module_call_vars, function_vars>>

\* an exception of the model call is retried like an empty result
PrimaryInvokeRaises_retried ==
    /\ pc = "generate"
    /\ ~cache_hit(skip_cache, cache_key, _docstring_cache)
    /\ ~_get_groq_client_raises
    /\ GetsClient
    /\ invocations' = invocations + 1
    /\ failed' = TRUE
    /\ IF should_retry(retry_count)
       THEN pc' = "generate" /\ skip_cache' = TRUE /\ retry_count' = retry_count + 1
       ELSE pc' = "fallback" /\ UNCHANGED <<skip_cache, retry_count>>
    /\ UNCHANGED <<_docstring_cache, api_key, func_meta, style, result, n_calls,
                   caller_skip_cache, cache_before, client_before, fallback_invocations,
                   source, first_call, memo, threads, module_call_vars, function_vars>>

\* line 726 (or the read of response.content) raises; caught at line 783
PrimaryInvokeRaises ==
    /\ pc = "generate"
    /\ ~cache_hit(skip_cache, cache_key, _docstring_cache)
    /\ ~_get_groq_client_raises
    /\ GetsClient
    /\ invocations' = invocations + 1
    /\ pc' = "fallback"
    /\ failed' = TRUE
    /\ UNCHANGED <<_docstring_cache, api_key, call_vars, n_calls, caller_skip_cache,
                   cache_before, client_before, fallback_invocations, source,
                   first_call, memo, threads, module_call_vars, function_vars>>

\* lines 721-782: the model answers; the answer is cleaned, then retried,
\* handed to the fallback, or cached and returned
PrimaryResponse(response_content) ==
    /\ pc = "generate"
    /\ ~cache_hit(skip_cache, cache_key, _docstring_cache)
    /\ ~_get_groq_client_raises
    /\ GetsClient
    /\ invocations' = invocations + 1
    /\ LET content == memo.primary[response_content, func_meta, style]
       IN  IF is_empty(content)
           THEN /\ IF should_retry(retry_count)
                   THEN pc' = "generate" /\ skip_cache' = TRUE
                        /\ retry_count' = retry_count + 1
                   ELSE pc' = "fallback" /\ UNCHANGED <<skip_cache, retry_count>>
                /\ UNCHANGED <<_docstring_cache, result, source>>
           ELSE /\ _docstring_cache' = cache_store(_docstring_cache, cache_key, content)
                /\ Returns(content, "primary")
                /\ UNCHANGED <<skip_cache, retry_count>>
    /\ UNCHANGED <<api_key, func_meta, style, n_calls, caller_skip_cache, cache_before,
                   client_before, fallback_invocations, failed, first_call, memo, threads, module_call_vars, function_vars>>

(***************************************************************************)
(* _fallback_generate.                                                     *)
(***************************************************************************)
\* lines 992-999 after the try: the template, whose arg['name'] is outside
\* every try
ReturnsTemplate ==
    IF template_raises(func_meta)
    THEN pc' = "raised" /\ UNCHANGED <<result, source>>
    ELSE Returns(memo.template[func_meta, style], "template")

\* line 951 raises; caught at line 989
FallbackClientFails ==
    /\ pc = "fallback"
    /\ _get_groq_client_raises
    /\ ReturnsTemplate
    /\ UNCHANGED <<module_vars, func_meta, style, skip_cache, retry_count, n_calls,
                   caller_skip_cache, cache_before, client_before, invocations,
                   fallback_invocations, failed, first_call, memo, threads, module_call_vars, function_vars>>

\* the fallback's model call without the try around it
FallbackInvokeRaises_uncaught ==
    /\ pc = "fallback"
    /\ ~_get_groq_client_raises
    /\ GetsClient
    /\ fallback_invocations' = fallback_invocations + 1
    /\ pc' = "raised"
    /\ UNCHANGED <<_docstring_cache, api_key, call_vars, n_calls, caller_skip_cache,
                   cache_before, client_before, invocations, failed, source,
                   first_call, memo, threads, module_call_vars, function_vars>>

\* line 974 or 975 raises; caught at line 989
FallbackInvokeRaises ==
    /\ pc = "fallback"
    /\ ~_get_groq_client_raises
    /\ GetsClient
    /\ fallback_invocations' = fallback_invocations + 1
    /\ ReturnsTemplate
    /\ UNCHANGED <<_docstring_cache, api_key, func_meta, style, skip_cache, retry_count,
                   n_calls, caller_skip_cache, cache_before, client_before, invocations,
                   failed, first_call, memo, threads, module_call_vars, function_vars>>

\* lines 974-988: the model answers the short prompt
FallbackResponse(response_content) ==
    /\ pc = "fallback"
    /\ ~_get_groq_client_raises
    /\ GetsClient
    /\ fallback_invocations' = fallback_invocations + 1
    /\ LET content == memo.fallback[response_content]
       IN  IF is_usable(content)
           THEN Returns(content, "secondary")
           ELSE ReturnsTemplate
    /\ UNCHANGED <<_docstring_cache, api_key, func_meta, style, skip_cache, retry_count,
                   n_calls, caller_skip_cache, cache_before, client_before, invocations,
                   failed, first_call, memo, threads, module_call_vars, function_vars>>

(***************************************************************************)
(* The caller takes the result; the history of the run is brought up to    *)
(* date.                                                                   *)
(***************************************************************************)
Return ==
    /\ pc = "returned"
    /\ pc' = "idle"
    /\ n_calls' = n_calls + 1
    /\ first_call' =
           IF style = "none" THEN first_call
           ELSE IF first_call = NoCall /\ ~caller_skip_cache
           THEN << [key |-> cache_key, result |-> result,
                    settled |-> source \in {"cache", "primary"}] >>
           ELSE IF first_call # NoCall /\ first_call[1].key = cache_key
                   /\ caller_skip_cache /\ source = "primary"
           THEN [first_call EXCEPT ![1].settled = FALSE]
           ELSE first_call
    /\ func_meta' = NoMeta /\ style' = "none" /\ skip_cache' = FALSE /\ retry_count' = 0
    /\ result' = <<>> /\ caller_skip_cache' = FALSE
    /\ cache_before' = EmptyDict /\ client_before' = "None"
    /\ invocations' = 0 /\ fallback_invocations' = 0 /\ failed' = FALSE
    /\ source' = "none"
    /\ UNCHANGED <<module_vars, memo, threads, module_call_vars, function_vars>>

(***************************************************************************)
(* generate_module_docstring.                                              *)
(***************************************************************************)
ModuleReturns(value, from) ==
    /\ pc' = "module_returned"
    /\ result' = value
    /\ source' = from

\* lines 1025-1037: the entry point; without content the file is opened
generate_module_docstring(path, file_text) ==
    /\ pc = "idle"
    /\ n_calls < MaxCalls
    /\ file_path' = path /\ file_content' = file_text
    /\ cache_before' = _docstring_cache /\ client_before' = _groq_client
    /\ pc' = IF file_text = <<>> THEN "module_open" ELSE "module_prompt"
    /\ UNCHANGED <<module_vars, call_vars, n_calls, caller_skip_cache, invocations,
                   fallback_invocations, failed, source, first_call, memo, threads,
                   module_invocations, module_response, function_vars>>

\* lines 1038-1042: open or read raises
ModuleOpenFails ==
    /\ pc = "module_open"
    /\ ModuleReturns(<<>>, "unreadable")
    /\ UNCHANGED <<module_vars, func_meta, style, skip_cache, retry_count,
                   n_calls, caller_skip_cache, cache_before, client_before,
                   invocations, fallback_invocations, failed, first_call,
                   memo, threads, module_call_vars, function_vars>>

\* lines 1039-1040: the file is read
ModuleOpenReads(file_text) ==
    /\ pc = "module_open"
    /\ file_content' = file_text
    /\ pc' = "module_prompt"
    /\ UNCHANGED <<module_vars, call_vars, history_vars, memo, threads, file_path,
                   module_invocations, module_response, function_vars>>

\* line 1053 raises: no client and no credential; caught at line 1103
ModuleClientFails ==
    /\ pc = "module_prompt"
    /\ _get_groq_client_raises
    /\ ModuleReturns(memo.module_template[file_path], "module_template")
    /\ UNCHANGED <<module_vars, func_meta, style, skip_cache, retry_count,
                   n_calls, caller_skip_cache, cache_before, client_before,
                   invocations, fallback_invocations, failed, first_call,
                   memo, threads, module_call_vars, function_vars>>

\* the module prompt's model call without the try around it
ModuleInvokeRaises_uncaught ==
    /\ pc = "module_prompt"
    /\ ~_get_groq_client_raises
    /\ GetsClient
    /\ module_invocations' = module_invocations + 1
    /\ pc' = "raised"
    /\ UNCHANGED <<_docstring_cache, api_key, call_vars, history_vars, memo, threads,
                   file_path, file_content, module_response, function_vars>>

\* line 1081 or 1082 raises; caught at line 1103
ModuleInvokeRaises ==
    /\ pc = "module_prompt"
    /\ ~_get_groq_client_raises
    /\ GetsClient
    /\ module_invocations' = module_invocations + 1
    /\ ModuleReturns(memo.module_template[file_path], "module_template")
    /\ UNCHANGED <<_docstring_cache, api_key, func_meta, style, skip_cache, retry_count,
                   n_calls, caller_skip_cache, cache_before, client_before,
                   invocations, fallback_invocations, failed, first_call,
                   memo, threads, file_path, file_content, module_response, function_vars>>

\* lines 1053-1101: the model answers and the cleaned answer is returned
ModuleResponse(response_content) ==
    /\ pc = "module_prompt"
    /\ ~_get_groq_client_raises
    /\ GetsClient
    /\ module_invocations' = module_invocations + 1
    /\ module_response' = response_content
    /\ ModuleReturns(memo.module[response_content], "module_model")
    /\ UNCHANGED <<_docstring_cache, api_key, func_meta, style, skip_cache, retry_count,
                   n_calls, caller_skip_cache, cache_before, client_before,
                   invocations, fallback_invocations, failed, first_call,
                   memo, threads, file_path, file_content, function_vars>>

\* the caller has the result
ModuleReturn ==
    /\ pc = "module_returned"
    /\ pc' = "idle"
    /\ n_calls' = n_calls + 1
    /\ result' = <<>> /\ source' = "none"
    /\ cache_before' = EmptyDict /\ client_before' = "None"
    /\ file_path' = <<>> /\ file_content' = <<>> /\ module_invocations' = 0
    /\ module_response' = <<>>
    /\ UNCHANGED <<module_vars, func_meta, style, skip_cache, retry_count,
                   caller_skip_cache, invocations, fallback_invocations, failed,
                   first_call, memo, threads, function_vars>>

(***************************************************************************)
(* The pure functions applied on their own: the arguments are drawn from   *)
(* bounded sets, one step applies one function to them.                    *)
(***************************************************************************)
\* the words a first line is made of, and the number of them
MaxWords == 3

WORDS == { <<>>, <<"T","h","i","s">>, <<"t","h","i","s">>, <<"C","a","l","c","u","l","a","t","e","s">>, <<"c","a","l","c","u","l","a","t","e","s">>, <<"f","u","n","c","t","i","o","n">>,
           <<"s","u","m">>, <<"d","o","n","e",".">>, <<"v","a","l","i","d","?">>, <<"A","r","g","s",":">> }

\* the texts of exactly n words, a single space between two words
RECURSIVE phrases(_)
phrases(n) ==
    IF n = 1 THEN WORDS
    ELSE {phrase \o <<" ">> \o word : phrase \in phrases(n - 1), word \in WORDS}

FIRST_LINES == UNION {phrases(n) : n \in 1..MaxWords}

\* a first line alone, or followed by two more lines
FIXER_TEXTS == FIRST_LINES \cup {first_line \o <<NL," "," ","m","o","r","e"," ","t","e","x","t",NL,"l","a","s","t">> : first_line \in FIRST_LINES}

Applies(name, value) ==
    /\ applied = "none"
    /\ applied' = name
    /\ output' = value
    /\ UNCHANGED <<module_vars, pc, call_vars, history_vars, memo, threads, module_call_vars, args>>

FixerInit ==
    /\ Imported
    /\ args \in {[content |-> content] : content \in FIXER_TEXTS}
    /\ output = <<>> /\ applied = "none"

apply_fix_imperative_mood ==
    /\ DOMAIN args = {"content"}
    /\ Applies("_fix_imperative_mood", _fix_imperative_mood(args.content))

apply_fix_pep257_first_line ==
    /\ DOMAIN args = {"content"}
    /\ Applies("_fix_pep257_first_line", _fix_pep257_first_line(args.content))

FixerNext == apply_fix_imperative_mood \/ apply_fix_pep257_first_line

FixerSpec == FixerInit /\ [][FixerNext]_vars

\* the lines a model answer is made of, and the number of them
MaxLines == 3

LINES == { <<>>, <<"S","u","m",".">>, <<"c","a","l","c","u","l","a","t","e","s"," ","t","h","e"," ","s","u","m">>, <<"T","h","i","s"," ","R","a","i","s","e","s",":">>,
           <<"N","o","t","e"," ","t","h","a","t"," ","a"," ","i","s"," ","u","s","e","d",".">>, <<"A","r","g","s",":">>, <<" "," "," "," ","a"," ","(","i","n","t",")",":"," ","x">>,
           <<"R","e","t","u","r","n","s",":">>, <<"R","a","i","s","e","s",":">>, <<" "," "," "," ","V","a","l","u","e","E","r","r","o","r",":"," ","b","a","d">>,
           <<"R","e","t","u","r","n","s">>, <<"-","-","-","-","-","-","-">> }

RECURSIVE bodies(_)
bodies(n) ==
    IF n = 1 THEN LINES
    ELSE {body \o <<NL>> \o line : body \in bodies(n - 1), line \in LINES}

SANITIZER_TEXTS == UNION {bodies(n) : n \in 1..MaxLines}

SANITIZER_STYLES == {"google", "numpy"}

SanitizerInit ==
    /\ Imported
    /\ args \in {[content |-> content, func_meta |-> meta, style |-> s] :
                    content \in SANITIZER_TEXTS, meta \in METAS, s \in SANITIZER_STYLES}
    /\ output = <<>> /\ applied = "none"

apply_post_process_docstring ==
    /\ DOMAIN args = {"content", "func_meta", "style"}
    /\ Applies("_post_process_docstring",
               _post_process_docstring(args.content, args.func_meta, args.style))

SanitizerNext == apply_post_process_docstring

SanitizerSpec == SanitizerInit /\ [][SanitizerNext]_vars

\* metadata records: every field present, each drawn from two values, and
\* the records of METAS, where fields are missing
ARGS_METAS == { <<>>, << [name |-> <<"a">>, annotation |-> <<"i","n","t">>], [name |-> <<"b">>] >> }

FULL_METAS ==
    [name : {<<"f">>, <<"c","a","l","c","_","s","u","m">>},
     args_meta : ARGS_METAS,
     has_return : BOOLEAN,
     returns : {None, <<"i","n","t">>},
     raises : {<<>>, << <<"V","a","l","u","e","E","r","r","o","r">> >>},
     has_yields : BOOLEAN,
     yields : {None, <<"i","n","t">>},
     attributes : {<<>>, << <<"p","o","s">> >>},
     source_code : {<<>>, <<"p","a","s","s">>}]

META_INPUTS == FULL_METAS \cup METAS

KeyInit ==
    /\ Imported
    /\ args \in {[func_meta |-> meta, style |-> s] : meta \in META_INPUTS, s \in STYLES}
    /\ output = <<>> /\ applied = "none"

apply_create_cache_key ==
    /\ DOMAIN args = {"func_meta", "style"}
    /\ Applies("_create_cache_key", _create_cache_key(args.func_meta, args.style))

KeyNext == apply_create_cache_key

KeySpec == KeyInit /\ [][KeyNext]_vars

TemplateInit ==
    /\ Imported
    /\ args \in {[func_meta |-> meta] : meta \in META_INPUTS}
    /\ output = <<>> /\ applied = "none"

apply_build_google_body ==
    /\ DOMAIN args = {"func_meta"}
    /\ Applies("_build_google_body", _build_google_body(args.func_meta))

apply_build_numpy_body ==
    /\ DOMAIN args = {"func_meta"}
    /\ Applies("_build_numpy_body", _build_numpy_body(args.func_meta))

apply_build_rest_body ==
    /\ DOMAIN args = {"func_meta"}
    /\ Applies("_build_rest_body", _build_rest_body(args.func_meta))

TemplateNext == apply_build_google_body \/ apply_build_numpy_body \/ apply_build_rest_body

TemplateSpec == TemplateInit /\ [][TemplateNext]_vars

\* _post_process_docstring on numpy answers: a summary, then one section of
\* Returns, Yields or Raises with its underline and a body of entry lines
\* and description lines, then nothing or a Parameters section
MaxBody == 2

NUMPY_HEADERS == { <<"R","e","t","u","r","n","s",NL,"-","-","-","-","-","-","-">>, <<"Y","i","e","l","d","s",NL,"-","-","-","-","-","-">>, <<"R","a","i","s","e","s",NL,"-","-","-","-","-","-">> }

BODY_LINES == { <<"i","n","t">>, <<"V","a","l","u","e","E","r","r","o","r">>, <<"S","t","o","p","I","t","e","r","a","t","i","o","n">>, <<" "," "," "," ","T","h","e"," ","s","u","m",".">>,
                <<" "," "," "," ","I","f"," ","t","h","e"," ","i","n","p","u","t"," ","i","s"," ","b","a","d",".">> }

RECURSIVE section_bodies(_)
section_bodies(n) ==
    IF n = 1 THEN BODY_LINES
    ELSE {body \o <<NL>> \o line : body \in section_bodies(n - 1), line \in BODY_LINES}

NEXT_SECTIONS == { <<>>, <<NL,NL,"P","a","r","a","m","e","t","e","r","s",NL,"-","-","-","-","-","-","-","-","-","-",NL,"a"," ",":"," ","i","n","t",NL," "," "," "," ","F","i","r","s","t"," ","v","a","l","u","e",".">> }

NUMPY_TEXTS ==
    { <<"S","u","m",".",NL,NL>> \o header \o <<NL>> \o body \o next_section :
        header \in NUMPY_HEADERS,
        body \in UNION {section_bodies(n) : n \in 1..MaxBody},
        next_section \in NEXT_SECTIONS }

NumpyInit ==
    /\ Imported
    /\ args \in {[content |-> content, func_meta |-> meta, style |-> "numpy"] :
                    content \in NUMPY_TEXTS, meta \in METAS}
    /\ output = <<>> /\ applied = "none"

NumpyNext == apply_post_process_docstring

NumpySpec == NumpyInit /\ [][NumpyNext]_vars

\* _post_process_docstring on answers with stray None lines and exception
\* names, inside and outside the metadata's raises, in the three styles
SWEEP_LINES == { <<>>, <<"S","u","m",".">>, <<"N","o","n","e">>, <<" "," "," "," ","N","o","n","e">>, <<"V","a","l","u","e","E","r","r","o","r">>, <<"K","e","y","E","r","r","o","r">>,
                 <<" "," "," "," ","I","f"," ","t","h","e"," ","i","n","p","u","t"," ","i","s"," ","b","a","d",".">>, <<"N","o","t","e",":"," ","x">>, <<"R","a","i","s","e","s",":">>, <<"R","e","t","u","r","n","s",":">>,
                 <<" "," "," "," ","V","a","l","u","e","E","r","r","o","r">> }

RECURSIVE sweep_bodies(_)
sweep_bodies(n) ==
    IF n = 1 THEN SWEEP_LINES
    ELSE {body \o <<NL>> \o line : body \in sweep_bodies(n - 1), line \in SWEEP_LINES}

SWEEP_TEXTS == UNION {sweep_bodies(n) : n \in 1..MaxLines}

SWEEP_STYLES == {"google", "numpy", "rest"}

SweepInit ==
    /\ Imported
    /\ args \in {[content |-> content, func_meta |-> meta, style |-> s] :
                    content \in SWEEP_TEXTS, meta \in METAS, s \in SWEEP_STYLES}
    /\ output = <<>> /\ applied = "none"

SweepNext == apply_post_process_docstring

SweepSpec == SweepInit /\ [][SweepNext]_vars

\* The cleanup of lines 729-768 on a model answer that wraps a body in one
\* layer of triple quotes, with or without the prefix of a raw string.
WRAPPED_BODIES == { <<"S","u","m"," ","t","h","e"," ","v","a","l","u","e","s",".">>, <<"c","a","l","c","u","l","a","t","e","s"," ","t","h","e"," ","s","u","m">>,
                    <<" "," ","S","u","m"," ","t","h","e"," ","v","a","l","u","e","s","."," ",NL>>,
                    <<"S","u","m"," ","t","h","e"," ","v","a","l","u","e","s",".",NL,NL,"A","r","g","s",":",NL," "," "," "," ","a"," ","(","i","n","t",")",":"," ","x">> }

QUOTES == {DQ3, SQ3}

RAW_PREFIXES == { <<>>, <<"r">>, <<"R">> }

CLEANUP_STYLES == {"google", "numpy", "rest"}

wrapped(wrapped_body) == wrapped_body.prefix \o wrapped_body.quote \o wrapped_body.body
                            \o wrapped_body.quote

CleanupInit ==
    /\ Imported
    /\ args \in {[body |-> b, quote |-> q, prefix |-> r, func_meta |-> meta, style |-> s] :
                    b \in WRAPPED_BODIES, q \in QUOTES, r \in RAW_PREFIXES,
                    meta \in METAS, s \in CLEANUP_STYLES}
    /\ output = <<>> /\ applied = "none"

apply_clean_primary_response ==
    /\ DOMAIN args = {"body", "quote", "prefix", "func_meta", "style"}
    /\ Applies("clean_primary_response",
               clean_primary_response(wrapped(args), args.func_meta, args.style))

CleanupNext == apply_clean_primary_response

CleanupSpec == CleanupInit /\ [][CleanupNext]_vars

(***************************************************************************)
(* generate_docstring called from several threads.  _docstring_cache and   *)
(* _groq_client are module globals without a lock; a thread switch can     *)
(* come between any two accesses to them, so each access is a step.        *)
(***************************************************************************)
CONCURRENT_METAS == {MINIMAL_META, CALC_SUM_META}

CONCURRENT_STYLES == {"google"}

sequential_vars == <<pc, call_vars, history_vars, memo, module_call_vars, function_vars>>

\* line 716: the local cache_key of the thread's call
thread_key(t) == threads[t].cache_key

\* the calls the threads of S have made
RECURSIVE calls_made(_)
calls_made(S) ==
    IF S = {} THEN 0
    ELSE LET t == CHOOSE u \in S : TRUE
         IN  threads[t].n_calls + calls_made(S \ {t})

\* the thread is between the cache check of its call and the end of the call
past_check(t) == threads[t].pc \in {"client", "construct", "invoke", "store"}

\* the call returns: its locals are gone, the caller has the value
returned(frame, value, from) ==
    [frame EXCEPT !.pc = "returned", !.result = value, !.source = from,
                  !.skip_cache = FALSE, !.retry_count = 0, !.in_fallback = FALSE]

Thread(t, frame) == threads' = [threads EXCEPT ![t] = frame]

\* lines 992-999: the template of _fallback_generate
thread_template(t) ==
    IF template_raises(threads[t].func_meta)
    THEN [threads[t] EXCEPT !.pc = "raised"]
    ELSE returned(threads[t], memo.template[threads[t].func_meta, threads[t].style],
                  "template")

\* lines 783-786: the except of _generate_with_groq calls _fallback_generate
thread_fallback(t) == [threads[t] EXCEPT !.pc = "client", !.in_fallback = TRUE]

\* lines 1006-1022: a thread calls generate_docstring
thread_generate_docstring(t, meta, s, skip) ==
    /\ threads[t].pc \in {"idle", "returned"}
    /\ calls_made(THREADS) < MaxThreadCalls
    /\ Thread(t, [IdleThread EXCEPT !.func_meta = meta, !.style = s,
                                    !.cache_key = memo.cache_key[meta, s],
                                    !.skip_cache = skip, !.caller_skip_cache = skip,
                                    !.n_calls = threads[t].n_calls + 1,
                                    !.pc = IF s = "none" THEN "returned" ELSE "check"])
    /\ UNCHANGED <<module_vars, sequential_vars>>

\* line 717: the membership test; the callers that are past their own test
\* for the same key and have not returned are racing with this one
thread_check_cache(t) ==
    /\ threads[t].pc = "check"
    /\ IF cache_hit(threads[t].skip_cache, thread_key(t), _docstring_cache)
       THEN Thread(t, [threads[t] EXCEPT !.pc = "hit"])
       ELSE LET rivals == {u \in THREADS \ {t} :
                               past_check(u) /\ thread_key(u) = thread_key(t)}
            IN  threads' =
                  [u \in THREADS |->
                      IF u = t
                      THEN [threads[t] EXCEPT !.pc = "client",
                                              !.raced_with = @ \cup rivals]
                      ELSE IF u \in rivals
                      THEN [threads[u] EXCEPT !.raced_with = @ \cup {t}]
                      ELSE threads[u]]
    /\ UNCHANGED <<module_vars, sequential_vars>>

\* line 718: the read of the entry
thread_read_cache(t) ==
    /\ threads[t].pc = "hit"
    /\ Thread(t, returned(threads[t], _docstring_cache[thread_key(t)], "cache"))
    /\ UNCHANGED <<module_vars, sequential_vars>>

\* lines 295-298 and 304: _get_groq_client up to the constructor
thread_get_client(t) ==
    /\ threads[t].pc = "client"
    /\ IF _get_groq_client_raises
       THEN Thread(t, IF threads[t].in_fallback THEN thread_template(t)
                      ELSE thread_fallback(t))
       ELSE Thread(t, [threads[t] EXCEPT
                          !.pc = IF builds_client(_groq_client) THEN "construct"
                                 ELSE "invoke"])
    /\ UNCHANGED <<module_vars, sequential_vars>>

\* lines 299-303: the constructor returns and the global is assigned
thread_construct_client(t) ==
    /\ threads[t].pc = "construct"
    /\ _groq_client' = _get_groq_client
    /\ constructions' = constructions + 1
    /\ Thread(t, [threads[t] EXCEPT !.pc = "invoke"])
    /\ UNCHANGED <<_docstring_cache, api_key, sequential_vars>>

\* line 726 or line 974: client.invoke raises
thread_invoke_raises(t) ==
    /\ threads[t].pc = "invoke"
    /\ Thread(t, IF threads[t].in_fallback
                  THEN [thread_template(t) EXCEPT !.invoked = TRUE]
                  ELSE [thread_fallback(t) EXCEPT !.invoked = TRUE])
    /\ UNCHANGED <<module_vars, sequential_vars>>

\* lines 726-777 or 974-988: client.invoke answers, and the answer is cleaned
thread_response(t, response_content) ==
    /\ threads[t].pc = "invoke"
    /\ LET content == IF threads[t].in_fallback
                      THEN memo.fallback[response_content]
                      ELSE memo.primary[response_content, threads[t].func_meta,
                                        threads[t].style]
           frame ==
               IF threads[t].in_fallback
               THEN IF is_usable(content)
                    THEN returned(threads[t], content, "secondary")
                    ELSE thread_template(t)
               ELSE IF is_empty(content)
               THEN IF should_retry(threads[t].retry_count)
                    THEN [threads[t] EXCEPT !.pc = "check", !.skip_cache = TRUE,
                                            !.retry_count = @ + 1]
                    ELSE thread_fallback(t)
               ELSE [threads[t] EXCEPT !.pc = "store", !.result = content]
       IN  Thread(t, [frame EXCEPT !.invoked = TRUE])
    /\ UNCHANGED <<module_vars, sequential_vars>>

\* lines 780 and 782: the item assignment, and the return
thread_store(t) ==
    /\ threads[t].pc = "store"
    /\ _docstring_cache' = cache_store(_docstring_cache, thread_key(t), threads[t].result)
    /\ Thread(t, returned(threads[t], threads[t].result, "primary"))
    /\ UNCHANGED <<_groq_client, api_key, constructions, sequential_vars>>

ConcurrentInit ==
    /\ Imported
    /\ args = NoArgs /\ output = <<>> /\ applied = "none"

ConcurrentNext ==
    \E t \in THREADS :
        \/ \E meta \in CONCURRENT_METAS, s \in CONCURRENT_STYLES, skip \in BOOLEAN :
                thread_generate_docstring(t, meta, s, skip)
        \/ thread_check_cache(t)
        \/ thread_read_cache(t)
        \/ thread_get_client(t)
        \/ thread_construct_client(t)
        \/ thread_invoke_raises(t)
        \/ \E response_content \in RESPONSES : thread_response(t, response_content)
        \/ thread_store(t)

ConcurrentSpec == ConcurrentInit /\ [][ConcurrentNext]_vars

(***************************************************************************)
(* Properties.                                                             *)
(***************************************************************************)
\* a Python str
is_str(value) == value \in Seq(STRING)

model_invocations == invocations + fallback_invocations

\* the call is for the fingerprint of the first call without bypass
same_as_first_call ==
    style # "none" /\ first_call # NoCall /\ first_call[1].key = cache_key

\* C1: generate_docstring never raises to its caller: whatever the client
\* does (no credential, the invocation raises, the answer is empty or any
\* text), no call ends in an exception, and what a call returns is a string.
C1_NeverRaises ==
    /\ pc # "raised"
    /\ pc = "returned" => is_str(result)

\* C1 witness: the primary invocation raised, then the fallback's invocation
\* raised, and the call still returned the template.
C1_Witness ==
    /\ pc = "returned" /\ source = "template"
    /\ failed /\ invocations = 1 /\ fallback_invocations = 1

\* C2 as stated: a second call without bypass for the same metadata and
\* style returns what the first returned and invokes no model.
C2_SecondCallRepeatsFirst ==
    (pc = "returned" /\ ~caller_skip_cache /\ same_as_first_call)
        => result = first_call[1].result /\ model_invocations = 0

\* C2 amended: when the first call without bypass returned a cache hit or a
\* primary result, and no call with bypass has stored a new result for that
\* fingerprint since, a later call without bypass for the same metadata and
\* style returns the same string and invokes no model.
C2_SettledCallRepeats ==
    (pc = "returned" /\ ~caller_skip_cache /\ same_as_first_call /\ first_call[1].settled)
        => /\ result = first_call[1].result
           /\ model_invocations = 0
           /\ source = "cache"

\* C2 witness: a second call without bypass is answered from the cache with
\* the primary result of the first.
C2_Witness ==
    /\ pc = "returned" /\ ~caller_skip_cache /\ same_as_first_call
    /\ first_call[1].settled /\ source = "cache" /\ result # <<>>

\* C3: every value in the cache is a non-empty string that the primary path
\* (response cleanup, sanitizer, style fixer) produced for the key's
\* metadata and style; no fallback result and no empty string is stored.
C3_CacheDiscipline ==
    \A key \in DOMAIN _docstring_cache :
        /\ _docstring_cache[key] # <<>>
        /\ \E meta \in METAS, response_content \in RESPONSES :
              /\ _create_cache_key(meta, key.style) = key
              /\ _docstring_cache[key] = memo.primary[response_content, meta, key.style]

\* C3 witness: a result is stored after a retry.
C3_Witness ==
    /\ pc = "returned" /\ source = "primary" /\ retry_count > 0
    /\ cache_key \in DOMAIN _docstring_cache
    /\ cache_key \notin DOMAIN cache_before

\* C4: within one call at most MAX_RETRIES + 1 primary invocations happen;
\* the attempt after k empty results runs with retry_count = k and the
\* bypass forced; after the last allowed empty result the call is with the
\* fallback generator, not at the primary prompt again.
C4_BoundedRetry ==
    /\ invocations <= MAX_RETRIES + 1
    /\ retry_count <= MAX_RETRIES
    /\ pc = "generate" => invocations = retry_count
    /\ retry_count > 0 => skip_cache
    /\ invocations = MAX_RETRIES + 1 => pc \in {"fallback", "returned"}

\* C4 witness: three empty results in a row, and the call is with the
\* fallback generator.
C4_Witness ==
    /\ pc = "fallback" /\ ~failed
    /\ invocations = MAX_RETRIES + 1 /\ retry_count = MAX_RETRIES
    /\ ~caller_skip_cache /\ skip_cache

\* C5: once a primary attempt of a call has raised, the call makes no
\* further primary invocation and no retry, it returns what the fallback
\* generator gives, and the cache is as it was before the call; a retry
\* never follows an exception.
C5_FailureGoesToFallback ==
    /\ [](failed => /\ pc \in {"fallback", "returned"}
                    /\ _docstring_cache = cache_before
                    /\ pc = "returned" => source \in {"secondary", "template"})
    /\ [][failed => \/ pc' = "idle"
                    \/ invocations' = invocations /\ retry_count' = retry_count]_vars
    /\ [][retry_count' > retry_count => ~failed']_vars

\* C5 witness: a retry after an empty result raised, and the call returned
\* the fallback's model answer with the cache untouched.
C5_Witness ==
    /\ pc = "returned" /\ failed /\ retry_count > 0
    /\ source = "secondary" /\ _docstring_cache = cache_before

\* C6: a call with the style none returns the empty string, builds no
\* client, invokes no model and leaves the cache unchanged.
C6_NoneStyle ==
    (pc = "returned" /\ style = "none")
        => /\ result = <<>>
           /\ model_invocations = 0
           /\ _groq_client = client_before
           /\ _docstring_cache = cache_before

\* C6 witness: a call with the style none and the bypass returns while the
\* cache holds an entry.
C6_Witness ==
    /\ pc = "returned" /\ style = "none" /\ caller_skip_cache
    /\ func_meta = CALC_SUM_META
    /\ _docstring_cache # EmptyDict

\* C7: the fallback generator never raises and never returns an empty
\* string, whatever its model call does, the minimal metadata included; so
\* every call with a style other than none returns a non-empty string.
C7_FallbackNeverEmpty ==
    /\ \A meta \in METAS, s \in STYLES : memo.template[meta, s] # <<>>
    /\ pc = "fallback" => ~template_raises(func_meta)
    /\ (pc = "returned" /\ source \in {"secondary", "template"}) => result # <<>>
    /\ (pc = "returned" /\ style # "none") => result # <<>>

\* C7 witness: the fallback's model call answered for the minimal metadata
\* with nothing usable, and the template was returned.
C7_Witness ==
    /\ pc = "returned" /\ source = "template" /\ func_meta = MINIMAL_META
    /\ fallback_invocations = 1 /\ ~failed

\* a header line of the section in the grammar of the style
has_section(content, s, section_name) ==
    \E k \in 1..Len(split_lines(content)) :
        LET stripped == strip(split_lines(content)[k])
        IN  /\ section_pattern_match(s, stripped) # NoMatch
            /\ normalize_section(section_pattern_match(s, stripped)) = section_name

first_line_of(content) == split_lines(content)[1]

\* C8: no returned string holds a docstring delimiter, three double quotes
\* or three single quotes in a row.
C8_NoDelimiter ==
    pc = "returned" => ~contains(result, DQ3) /\ ~contains(result, SQ3)

\* C9: a returned string has a Raises section only if raises is non-empty,
\* a Returns section only if has_return, a Yields section only if
\* has_yields, an Attributes section only if the metadata has attributes.
C9_OnlySupportedSections ==
    (pc = "returned" /\ style # "none")
        => /\ has_section(result, style, <<"r","a","i","s","e","s">>)
                => get(func_meta, "raises", <<>>) # <<>>
           /\ has_section(result, style, <<"r","e","t","u","r","n","s">>)
                => get(func_meta, "has_return", FALSE)
           /\ has_section(result, style, <<"y","i","e","l","d","s">>)
                => get(func_meta, "has_yields", FALSE)
           /\ has_section(result, style, <<"a","t","t","r","i","b","u","t","e","s">>)
                => get(func_meta, "attributes", <<>>) # <<>>

\* C10: the first line of a non-empty returned string ends with one of
\* . ! ? :, its first character is not a lowercase letter, and it does not
\* start with "this " in any case.
C10_MechanicalStyle ==
    (pc = "returned" /\ result # <<>>)
        => /\ first_line_of(result) # <<>>
           /\ first_line_of(result)[Len(first_line_of(result))] \in {".", "!", "?", ":"}
           /\ ~islower(result[1])
           /\ ~startswith(lower(result), <<"t","h","i","s"," ">>)

\* the first word of a text: what stands before the first space of its
\* first line
first_word_of(content) == before(before(content, <<NL>>), <<" ">>)

\* C11: the first word of what _post_process_docstring returns is never a
\* present-tense key of the imperative table, whatever the raw first line
\* looked like (lowercase, or behind a leading "This ...").
C11_ImperativeFirstWord ==
    applied = "_post_process_docstring"
        => first_word_of(output) \notin DOMAIN _IMPERATIVE_FIXES

\* C12: in google style the output of _post_process_docstring has no Raises
\* header when raises is empty, no Returns header when has_return is false,
\* no Yields header when has_yields is false, and never an Attributes, Note,
\* Example or See Also header.
C12_NoForbiddenHeader ==
    (applied = "_post_process_docstring" /\ args.style = "google")
        => /\ get(args.func_meta, "raises", <<>>) = <<>>
                => ~has_section(output, "google", <<"r","a","i","s","e","s">>)
           /\ ~get(args.func_meta, "has_return", FALSE)
                => ~has_section(output, "google", <<"r","e","t","u","r","n","s">>)
           /\ ~get(args.func_meta, "has_yields", FALSE)
                => ~has_section(output, "google", <<"y","i","e","l","d","s">>)
           /\ \A section_name \in { <<"a","t","t","r","i","b","u","t","e","s">>, <<"n","o","t","e">>, <<"e","x","a","m","p","l","e">>, <<"s","e","e"," ","a","l","s","o">> } :
                ~has_section(output, "google", section_name)

\* a header line of the section in google style with the entry on the line
\* after it
has_entry(content, section_name, entry) ==
    \E k \in 1..(Len(split_lines(content)) - 1) :
        /\ google_match(strip(split_lines(content)[k])) = section_name
        /\ strip(split_lines(content)[k + 1]) = entry

\* C13: _post_process_docstring never deletes a section the metadata
\* permits: a Returns header of the style survives when has_return, and in
\* google style an Args header with its parameter line when the function has
\* arguments and a Raises header with its ValueError entry when raises is
\* ["ValueError"], whatever stands around them.
C13_PermittedSurvives ==
    applied = "_post_process_docstring"
        => /\ (/\ get(args.func_meta, "args_meta", <<>>) # <<>>
               /\ has_entry(args.content, <<"a","r","g","s">>, <<"a"," ","(","i","n","t",")",":"," ","x">>))
                => has_entry(output, <<"a","r","g","s">>, <<"a"," ","(","i","n","t",")",":"," ","x">>)
           /\ (/\ get(args.func_meta, "has_return", FALSE)
               /\ has_section(args.content, args.style, <<"r","e","t","u","r","n","s">>))
                => has_section(output, args.style, <<"r","e","t","u","r","n","s">>)
           /\ (/\ get(args.func_meta, "raises", <<>>) = << <<"V","a","l","u","e","E","r","r","o","r">> >>
               /\ has_entry(args.content, <<"r","a","i","s","e","s">>, <<"V","a","l","u","e","E","r","r","o","r",":"," ","b","a","d">>))
                => has_entry(output, <<"r","a","i","s","e","s">>, <<"V","a","l","u","e","E","r","r","o","r",":"," ","b","a","d">>)

\* C14: _fix_imperative_mood replaces a first word that is a key of the
\* table by its imperative form and leaves the rest of the first line and
\* every later line as they were; any other input comes back unchanged.
C14_ImperativeFix ==
    applied = "_fix_imperative_mood"
        => IF first_word_of(args.content) \in DOMAIN _IMPERATIVE_FIXES
           THEN output = _IMPERATIVE_FIXES[first_word_of(args.content)]
                            \o drop(args.content, Len(first_word_of(args.content)))
           ELSE output = args.content

C14_Witness ==
    /\ applied = "_fix_imperative_mood"
    /\ first_word_of(args.content) \in DOMAIN _IMPERATIVE_FIXES
    /\ contains(before(args.content, <<NL>>), <<" ">>)
    /\ contains(args.content, <<NL>>)
    /\ output # args.content

\* C15: when the first line starts with "this " in any case and more text
\* follows, the result of _fix_pep257_first_line does not start with
\* "this " in any case.
C15_ThisRemoved ==
    (/\ applied = "_fix_pep257_first_line"
     /\ startswith(lower(first_line_of(args.content)), <<"t","h","i","s"," ">>)
     /\ strip(drop(first_line_of(args.content), 5)) # <<>>)
        => ~startswith(lower(output), <<"t","h","i","s"," ">>)

TERMINAL_PUNCTUATION == {".", "!", "?", ":"}

\* how many characters of TERMINAL_PUNCTUATION end the line
RECURSIVE terminal_run(_)
terminal_run(line) ==
    IF line = <<>> \/ line[Len(line)] \notin TERMINAL_PUNCTUATION THEN 0
    ELSE 1 + terminal_run(SubSeq(line, 1, Len(line) - 1))

\* C16: for a first line that is not blank, the first line of the result of
\* _fix_pep257_first_line starts with a character that is no lowercase
\* letter and ends with one of . ! ? :, a period is appended exactly when
\* the line ended with none of the four (a line that ends with one of them
\* keeps its ending as it is), and the lines after the first are unchanged.
C16_CapitalAndPeriod ==
    (applied = "_fix_pep257_first_line" /\ strip(first_line_of(args.content)) # <<>>)
        => LET given == strip(first_line_of(args.content))
               fixed == first_line_of(output)
           IN  /\ fixed # <<>>
               /\ ~islower(fixed[1])
               /\ fixed[Len(fixed)] \in TERMINAL_PUNCTUATION
               /\ IF terminal_run(given) = 0
                  THEN /\ terminal_run(fixed) = 1
                       /\ fixed[Len(fixed)] = "."
                       /\ fixed[Len(fixed) - 1] = given[Len(given)]
                  ELSE /\ terminal_run(fixed) = terminal_run(given)
                       /\ fixed[Len(fixed)] = given[Len(given)]
               /\ Tail(split_lines(output)) = Tail(split_lines(args.content))

C16_Witness ==
    /\ applied = "_fix_pep257_first_line"
    /\ args.content # <<>> /\ output # <<>>
    /\ islower(args.content[1])
    /\ endswith(first_line_of(args.content), <<"?">>)
    /\ Len(split_lines(args.content)) = 3
    /\ isupper(output[1])
    /\ endswith(first_line_of(output), <<"?">>)

\* the eight metadata fields the claim names, each with the value a record
\* without the field is read as
FINGERPRINT_DEFAULTS ==
    [name |-> <<>>, args_meta |-> <<>>, has_return |-> FALSE, returns |-> None,
     raises |-> <<>>, has_yields |-> FALSE, yields |-> None, source_code |-> <<>>]

field_of(meta, field) ==
    IF field \in DOMAIN meta THEN meta[field] ELSE FINGERPRINT_DEFAULTS[field]

same_fingerprint_fields(meta, s, other_meta, other_s) ==
    /\ s = other_s
    /\ \A field \in DOMAIN FINGERPRINT_DEFAULTS : field_of(meta, field) = field_of(other_meta, field)

lines_with_prefix(lines, prefix) == {k \in 1..Len(lines) : startswith(lines[k], prefix)}

\* a line that is the header alone
has_header(lines, header) == \E k \in 1..Len(lines) : lines[k] = header

\* a line that is the header alone, underlined by dashes of its length
has_underlined(lines, header) ==
    \E k \in 1..(Len(lines) - 1) :
        /\ lines[k] = header
        /\ lines[k + 1] = [j \in 1..Len(header) |-> "-"]

\* the sections of a template, as the lines of the style show them: one
\* entry per argument, and each section there exactly when the metadata
\* asks for it
google_template_sections(lines, meta) ==
    /\ has_header(lines, <<"A","r","g","s",":">>) <=> get(meta, "args_meta", <<>>) # <<>>
    /\ \A k \in 1..Len(get(meta, "args_meta", <<>>)) :
          lines_with_prefix(lines, <<" "," "," "," ">> \o get(meta, "args_meta", <<>>)[k].name \o <<" ","(">>) # {}
    /\ has_header(lines, <<"R","e","t","u","r","n","s",":">>) <=> get(meta, "has_return", FALSE)
    /\ has_header(lines, <<"Y","i","e","l","d","s",":">>) <=> get(meta, "has_yields", FALSE)
    /\ has_header(lines, <<"A","t","t","r","i","b","u","t","e","s",":">>) <=> get(meta, "attributes", <<>>) # <<>>
    /\ has_header(lines, <<"R","a","i","s","e","s",":">>) <=> get(meta, "raises", <<>>) # <<>>

numpy_template_sections(lines, meta) ==
    /\ has_underlined(lines, <<"P","a","r","a","m","e","t","e","r","s">>) <=> get(meta, "args_meta", <<>>) # <<>>
    /\ \A k \in 1..Len(get(meta, "args_meta", <<>>)) :
          lines_with_prefix(lines, get(meta, "args_meta", <<>>)[k].name \o <<" ",":"," ">>) # {}
    /\ has_underlined(lines, <<"R","e","t","u","r","n","s">>) <=> get(meta, "has_return", FALSE)
    /\ has_underlined(lines, <<"Y","i","e","l","d","s">>) <=> get(meta, "has_yields", FALSE)
    /\ has_underlined(lines, <<"A","t","t","r","i","b","u","t","e","s">>) <=> get(meta, "attributes", <<>>) # <<>>
    /\ has_underlined(lines, <<"R","a","i","s","e","s">>) <=> get(meta, "raises", <<>>) # <<>>

rest_template_sections(lines, meta) ==
    /\ Cardinality(lines_with_prefix(lines, <<":","p","a","r","a","m"," ">>)) = Len(get(meta, "args_meta", <<>>))
    /\ \A k \in 1..Len(get(meta, "args_meta", <<>>)) :
          lines_with_prefix(lines, <<":","p","a","r","a","m"," ">> \o get(meta, "args_meta", <<>>)[k].name \o <<":">>) # {}
    /\ lines_with_prefix(lines, <<":","r","e","t","u","r","n","s",":">>) # {} <=> get(meta, "has_return", FALSE)
    /\ lines_with_prefix(lines, <<":","y","i","e","l","d","s",":">>) # {} <=> get(meta, "has_yields", FALSE)
    /\ lines_with_prefix(lines, <<":","a","t","t","r","i","b","u","t","e"," ">>) # {} <=> get(meta, "attributes", <<>>) # <<>>
    /\ lines_with_prefix(lines, <<":","r","a","i","s","e","s"," ">>) # {} <=> get(meta, "raises", <<>>) # <<>>

\* C18: each template builder returns a text that starts with a summary
\* line and has an entry for every argument, a parameter section exactly
\* when there are arguments, a return section exactly when has_return, a
\* yields section exactly when has_yields, an attributes section exactly when
\* attributes is non-empty and a raises section exactly when raises is
\* non-empty; for calc_sum the reST text has ":param a:", ":param b:" and
\* ":returns:" and no ":raises".
C18_TemplateSections ==
    applied \in {"_build_google_body", "_build_numpy_body", "_build_rest_body"}
        => LET lines == split_lines(output)
           IN  /\ lines[1] # <<>>
               /\ endswith(lines[1], <<".">>)
               \* the summary names the function and is the first line only
               /\ lines_with_prefix(lines, <<"S","h","o","r","t"," ","d","e","s","c","r","i","p","t","i","o","n"," ","o","f"," ">>)
                      \cup lines_with_prefix(lines, <<"C","a","l","c"," ","s","u","m"," ">>)
                      \cup lines_with_prefix(lines, <<"F"," ">>)
                      \cup lines_with_prefix(lines, <<"S","c","a","n"," ">>) = {1}
               /\ Len(lines) > 1 => lines[2] = <<>>
               /\ applied = "_build_google_body" => google_template_sections(lines, args.func_meta)
               /\ applied = "_build_numpy_body" => numpy_template_sections(lines, args.func_meta)
               /\ applied = "_build_rest_body" => rest_template_sections(lines, args.func_meta)
               /\ (applied = "_build_rest_body" /\ args.func_meta = CALC_SUM_META)
                    => /\ lines_with_prefix(lines, <<":","p","a","r","a","m"," ","a",":">>) # {}
                       /\ lines_with_prefix(lines, <<":","p","a","r","a","m"," ","b",":">>) # {}
                       /\ lines_with_prefix(lines, <<":","r","e","t","u","r","n","s",":">>) # {}
                       /\ ~contains(output, <<":","r","a","i","s","e","s">>)

C18_Witness ==
    /\ applied = "_build_rest_body"
    /\ args.func_meta = CALC_SUM_META
    /\ contains(output, <<":","p","a","r","a","m"," ","a",":">>) /\ contains(output, <<":","p","a","r","a","m"," ","b",":">>)
    /\ contains(output, <<":","r","e","t","u","r","n","s",":">>)

\* a generate_module_docstring call is running or has just returned
in_module_call == pc \in {"module_open", "module_prompt", "module_returned"}

\* the answer without its enclosing triple quotes, then the two fixes
fixed_after_quotes(response_content) ==
    strip(_fix_pep257_first_line(_fix_imperative_mood(
        strip_enclosing_quotes(strip(response_content)))))

\* the same with a first line that starts with "here" removed when more
\* lines follow it
fixed_after_quotes_and_here(response_content) ==
    LET unquoted == strip_enclosing_quotes(strip(response_content))
        body == IF startswith(lower(unquoted), <<"h","e","r","e">>) /\ contains(unquoted, <<NL>>)
                THEN strip(drop(unquoted, find(unquoted, <<NL>>)))
                ELSE unquoted
    IN  strip(_fix_pep257_first_line(_fix_imperative_mood(body)))

\* what C19 says of every generate_module_docstring call, but for the text
\* returned when the model answers
module_call_contract ==
    /\ pc # "raised"
    /\ pc = "module_returned" => is_str(result)
    /\ (pc = "module_returned" /\ source = "unreadable")
          => result = <<>> /\ file_content = <<>> /\ module_invocations = 0
    /\ (pc = "module_returned" /\ source = "module_template")
          => result = <<"D","a","t","a"," ","U","t","i","l","s"," ","m","o","d","u","l","e",".">>
    /\ pc = "module_returned" => source \in {"unreadable", "module_template", "module_model"}
    /\ in_module_call => _docstring_cache = cache_before

\* C19 as stated: generate_module_docstring never raises and returns a
\* string: the empty string when the file cannot be read, the template
\* "<Module Name> module." when the client or the invocation fails, and
\* otherwise the model text after quote stripping and the two first-line
\* fixes; the cache stays as it was.
C19_ModuleDocstring ==
    /\ module_call_contract
    /\ (pc = "module_returned" /\ source = "module_model")
          => result = fixed_after_quotes(module_response)

\* C19 amended: the same, where the model text also loses a first line that
\* starts with "here" (in any case) when more lines follow it.
C19_ModuleDocstringHere ==
    /\ module_call_contract
    /\ (pc = "module_returned" /\ source = "module_model")
          => result = fixed_after_quotes_and_here(module_response)

\* C19 witness: the answer had a preamble line, and the cache holds an entry
\* of an earlier generate_docstring call
C19_Witness ==
    /\ pc = "module_returned" /\ source = "module_model"
    /\ module_response = HERE_RESPONSE
    /\ result = <<"P","r","o","v","i","d","e","s"," ","h","e","l","p","e","r","s",".">>
    /\ _docstring_cache # EmptyDict

\* C20: when every model invocation returns or raises, a generate_docstring
\* call that has started returns; the retry counter grows by one per
\* recursive call, only from a value below MAX_RETRIES, so the recursion is
\* never deeper than MAX_RETRIES levels.
C20_Terminates ==
    /\ (pc \in {"generate", "fallback"}) ~> (pc = "returned")
    /\ [](retry_count <= MAX_RETRIES)
    /\ [][retry_count' > retry_count
            => /\ retry_count' = retry_count + 1
               /\ retry_count < MAX_RETRIES
               /\ pc = "generate" /\ pc' = "generate"]_vars

\* C20 witness: a call returned from the deepest recursion
C20_Witness ==
    /\ pc = "returned"
    /\ retry_count = MAX_RETRIES
    /\ invocations = MAX_RETRIES + 1

\* a generate_docstring call is running or has just returned
in_call == pc \in {"generate", "fallback", "returned"}

\* C21: a call without bypass whose fingerprint was cached when it started
\* returns the cached value, with no client built, no model invocation and
\* the cache as it was.
C21_CacheHitFrame ==
    (in_call /\ ~caller_skip_cache /\ cache_key \in DOMAIN cache_before)
        => /\ _docstring_cache = cache_before
           /\ _groq_client = client_before
           /\ model_invocations = 0
           /\ pc # "fallback"
           /\ pc = "returned" => result = cache_before[cache_key] /\ source = "cache"

C21_Witness ==
    /\ pc = "returned" /\ source = "cache"
    /\ ~caller_skip_cache /\ cache_key \in DOMAIN cache_before
    /\ result = _docstring_cache[cache_key]
    /\ model_invocations = 0

\* C22: no step removes a fingerprint from the cache, and the value of an
\* entry changes only in the step that ends a call for that fingerprint,
\* running with bypass, in a non-empty primary result.
C22_NoEviction ==
    [][\A key \in DOMAIN _docstring_cache :
          /\ key \in DOMAIN _docstring_cache'
          /\ _docstring_cache'[key] # _docstring_cache[key]
                => /\ key = cache_key
                   /\ skip_cache
                   /\ pc = "generate" /\ pc' = "returned"
                   /\ source' = "primary"
                   /\ result' # <<>>
                   /\ _docstring_cache'[key] = result']_vars

\* C22 witness: the call just returned replaced the value of an entry and
\* removed none
C22_Witness ==
    /\ pc = "returned" /\ source = "primary"
    /\ cache_key \in DOMAIN cache_before
    /\ cache_before[cache_key] # _docstring_cache[cache_key]
    /\ DOMAIN _docstring_cache = DOMAIN cache_before

\* C23: when a call with skip_cache true has returned r, the cache has no
\* entry for its fingerprint or the entry is r.
C23_RegenerationInvalidates ==
    (pc = "returned" /\ caller_skip_cache)
        => \/ cache_key \notin DOMAIN _docstring_cache
           \/ _docstring_cache[cache_key] = result

\* C24: the client is built at most once, never at import, only in a step
\* that makes a model invocation and only with the credential there; once
\* built it stays the shared client; a call that ends in the none
\* short-circuit or a cache hit builds none; without the credential the
\* attempt fails and the client stays unset.
C24_LazySharedClient ==
    /\ [](constructions <= 1)
    /\ []((constructions = 0) <=> (_groq_client = "None"))
    /\ []((n_calls = 0 /\ pc = "idle") => _groq_client = "None")
    /\ [][_groq_client' # _groq_client
            => /\ _groq_client = "None" /\ _groq_client' = "ChatGroq"
               /\ constructions' = 1
               /\ api_key
               /\ invocations' + fallback_invocations' + module_invocations'
                    = invocations + fallback_invocations + module_invocations + 1]_vars
    /\ []((pc = "returned" /\ source \in {"none", "cache"}) => _groq_client = client_before)
    /\ [](~api_key => _groq_client = "None")
    /\ []((~api_key /\ pc = "fallback") => failed /\ invocations = 0)
    /\ []((~api_key /\ pc = "module_returned" /\ file_content # <<>>)
            => source = "module_template" /\ module_invocations = 0)

\* C24 witness: a second call invoked the model with the client the first
\* call built
C24_Witness ==
    /\ pc = "returned" /\ source = "primary"
    /\ n_calls = 1
    /\ client_before = "ChatGroq" /\ _groq_client = "ChatGroq"
    /\ constructions = 1 /\ invocations = 1

\* C25: without the credential a generate_docstring call makes no model
\* invocation, returns the template of its metadata and style, and leaves the
\* cache empty and the client unset; a call with the inputs of an earlier
\* call returns what that call returned.
C25_MissingCredential ==
    ~api_key
        => /\ model_invocations = 0
           /\ _docstring_cache = EmptyDict
           /\ _groq_client = "None"
           /\ (pc = "returned" /\ style # "none")
                => /\ source = "template"
                   /\ result = template_body(func_meta, style)
           /\ (pc = "returned" /\ style # "none" /\ first_call # NoCall
               /\ first_call[1].key = cache_key)
                => result = first_call[1].result

\* C25 witness: the second call without the credential, with the inputs of
\* the first, has returned the template
C25_Witness ==
    /\ ~api_key
    /\ pc = "returned" /\ source = "template" /\ failed
    /\ n_calls = 1 /\ first_call # NoCall /\ first_call[1].key = cache_key
    /\ result = first_call[1].result

\* the lines of a numpy text that are the body of a Raises, Returns or Yields
\* section that is invalid for the metadata: after the header and its
\* underline, up to the next header
numpy_headers(lines) == {k \in 1..Len(lines) : numpy_match(strip(lines[k])) # NoMatch}

invalid_body_lines(lines, meta) ==
    {j \in 1..Len(lines) :
        \E k \in numpy_headers(lines) :
            /\ numpy_match(strip(lines[k]))
                    \in invalid_sections(meta) \cap { <<"r","a","i","s","e","s">>, <<"r","e","t","u","r","n","s">>, <<"y","i","e","l","d","s">> }
            /\ k + 1 < j
            /\ is_dashes(strip(lines[k + 1]))
            /\ \A h \in numpy_headers(lines) : ~(k < h /\ h <= j)
            /\ strip(lines[j]) # <<>>}

\* C26: in numpy style no body line of a Raises, Returns or Yields section
\* that is invalid for the metadata is left in the output of
\* _post_process_docstring, be it a non-indented entry line or an indented
\* description line, and the header of the section is gone as well.
C26_NumpyInvalidSectionDeleted ==
    (applied = "_post_process_docstring" /\ args.style = "numpy")
        => LET lines == split_lines(args.content)
               kept == RangeOf(split_lines(output))
           IN  \A j \in invalid_body_lines(lines, args.func_meta) : lines[j] \notin kept

\* a bare capitalized identifier that ends in Error or Exception
exception_name(stripped) ==
    /\ stripped # <<>>
    /\ isupper(stripped[1])
    /\ \A k \in 1..Len(stripped) : isalpha(stripped[k])
    /\ \E suffix \in { <<"E","r","r","o","r">>, <<"E","x","c","e","p","t","i","o","n">> } :
            endswith(stripped, suffix) /\ Len(stripped) > Len(suffix)

raises_of(meta) == RangeOf(get(meta, "raises", <<>>))

\* no line of the text is None and none is an exception name outside raises
swept(content, meta) ==
    \A k \in 1..Len(split_lines(content)) :
        LET stripped == strip(split_lines(content)[k])
        IN  /\ stripped # <<"N","o","n","e">>
            /\ exception_name(stripped) => stripped \in raises_of(meta)

\* the lines of the text that are an exception name of raises
raised_lines(lines, meta) ==
    {i \in 1..Len(lines) :
        exception_name(strip(lines[i])) /\ strip(lines[i]) \in raises_of(meta)}

\* the last of the indented description lines that follow line i
RECURSIVE last_description(_, _)
last_description(lines, i) ==
    IF i + 1 <= Len(lines) /\ strip(lines[i + 1]) # <<>> /\ startswith(lines[i + 1], <<" "," "," "," ">>)
    THEN last_description(lines, i + 1)
    ELSE i

\* an output line is the input line, up to surrounding whitespace and the
\* period the first line gets
same_line(out_line, line) == strip(out_line) \in {strip(line), strip(line) \o <<".">>}

\* lines i..j of the input stand in the output, in order and adjacent
kept_in(lines, i, j, out_lines) ==
    \E a \in 1..Len(out_lines) :
        /\ a + (j - i) <= Len(out_lines)
        /\ \A d \in 0..(j - i) : same_line(out_lines[a + d], lines[i + d])

\* nothing at or before line j makes another stage delete lines i..j: no
\* header of an invalid section, no Note line, no exception name outside
\* raises, and no description line that is None
undisturbed(lines, i, j, meta, s) ==
    /\ \A k \in 1..j :
        LET stripped == strip(lines[k])
        IN  /\ section_pattern_match(s, stripped) # NoMatch
                => normalize_section(section_pattern_match(s, stripped))
                        \notin invalid_sections(meta)
            /\ ~startswith(stripped, <<"N","o","t","e",":">>) /\ ~startswith(stripped, <<"N","o","t","e"," ">>)
            /\ exception_name(stripped) => stripped \in raises_of(meta)
    /\ \A k \in (i + 1)..j : strip(lines[k]) # <<"N","o","n","e">>

C28_Idempotent ==
    applied = "_post_process_docstring"
        => _post_process_docstring(output, args.func_meta, args.style) = output

\* C29: a response that is a body in one layer of triple quotes of either
\* style, with or without a leading r, is cleaned to what the bare body is
\* cleaned to.
C29_DelimiterStripping ==
    applied = "clean_primary_response"
        => output = clean_primary_response(args.body, args.func_meta, args.style)

\* the cleaned non-empty answers of the primary generation for the key
primary_results(key) ==
    {memo.primary[r, m, s] : r \in RESPONSES,
        m \in {meta \in CONCURRENT_METAS :
                  \E st \in CONCURRENT_STYLES : memo.cache_key[meta, st] = key},
        s \in {st \in CONCURRENT_STYLES :
                  \E meta \in CONCURRENT_METAS : memo.cache_key[meta, st] = key}}
        \ {<<>>}

\* every entry is a non-empty primary result for its key
entries_are_primary_results ==
    \A key \in DOMAIN _docstring_cache : _docstring_cache[key] \in primary_results(key)

\* two callers that raced on one fingerprint (each passed the cache check
\* before the other returned) and have both returned
raced_and_returned(t, u) ==
    /\ t # u
    /\ threads[t].pc = "returned" /\ threads[u].pc = "returned"
    /\ u \in threads[t].raced_with /\ t \in threads[u].raced_with
    /\ thread_key(t) = thread_key(u)

\* a call without bypass that finds its fingerprint cached returns the entry
\* the cache holds when it reads it, without a model invocation and without
\* writing the cache
hit_returns_entry ==
    \A t \in THREADS :
        /\ (/\ threads[t].pc = "check" /\ ~threads[t].skip_cache
            /\ thread_key(t) \in DOMAIN _docstring_cache
            /\ threads'[t] # threads[t])
                => threads'[t].pc = "hit"
        /\ (threads[t].pc = "hit" /\ threads'[t] # threads[t])
                => /\ threads'[t].pc = "returned"
                   /\ threads'[t].result = _docstring_cache[thread_key(t)]
                   /\ ~threads'[t].invoked
                   /\ _docstring_cache' = _docstring_cache

Next ==
    \/ \E meta \in METAS, s \in STYLES, skip \in BOOLEAN : generate_docstring(meta, s, skip)
    \/ CacheHit
    \/ PrimaryClientFails
    \/ PrimaryInvokeRaises
    \/ \E response_content \in RESPONSES : PrimaryResponse(response_content)
    \/ FallbackClientFails
    \/ FallbackInvokeRaises
    \/ \E response_content \in RESPONSES : FallbackResponse(response_content)
    \/ Return
    \/ \E path \in FILE_PATHS, file_text \in FILE_CONTENTS : generate_module_docstring(path, file_text)
    \/ ModuleOpenFails
    \/ \E file_text \in FILE_CONTENTS : ModuleOpenReads(file_text)
    \/ ModuleClientFails
    \/ ModuleInvokeRaises
    \/ \E response_content \in MODULE_RESPONSES : ModuleResponse(response_content)
    \/ ModuleReturn

Spec == Init /\ [][Next]_vars

\* A call that has started keeps running: the interpreter takes its next
\* step, and a model invocation returns or raises.  A caller need not call.
Running == pc # "idle" /\ Next

FairSpec == Spec /\ WF_vars(Running)
====
